---- MODULE Spec2Model ----
(***************************************************************************)
(* Model of the ingestion manager's storage adapter (manager/db.py) and    *)
(* schedule engine (manager/scheduler.py).                                 *)
(*                                                                         *)
(* Storage adapter: one DBAdapter holds ONE connection (autocommit off)    *)
(* and one RLock.  `tbl` is what the connection sees (its own uncommitted  *)
(* writes included), `committed` is what is durable.  Job threads call     *)
(* upsert_scd2 and log_history; every storage operation runs under the     *)
(* lock, the batch timestamp of upsert_scd2 is read before the lock.       *)
(*                                                                         *)
(* Timestamps are ISO-8601 UTC strings of one fixed layout in the code;    *)
(* their text order is their time order, so the model uses integer clock   *)
(* readings.  SHA-256 is modelled as injective on its input: the digest    *)
(* is the byte string that was fed to the hasher.                          *)
(***************************************************************************)
EXTENDS Integers, Sequences, FiniteSets, TLC

\* ------------------------------------------------------------------ bounds
\* rows the table may hold, records per batch, clock readings, ledger events
MaxRows ==
    2
MaxBatch ==
    2
MaxClock ==
    1
MaxHist ==
    2

\* --------------------------------------------------------- program values
\* valid_to of a current row: "9999-12-31T00:00:00+00:00"
Sentinel ==
    99991231

\* Python None (SQL NULL); not one of the string values below
None ==
    "<None>"
\* stands for a record (a dict) that has no entry for the key field
Missing ==
    "<missing>"

\* stands for an attribute value the database driver has no adapter for (a dict, an
\* arbitrary object): cursor.execute raises on it before anything is sent to the
\* server, so the statement is not executed and the transaction is not aborted
Unadaptable ==
    "<dict>"

\* `row` before the loop has reached a record
NoRow ==
    [k |-> Missing, a1 |-> None, a2 |-> None]

Threads ==
    {"t1", "t2"}
NoThread ==
    "none"

Keys ==
    {"K1", "K2"}
\* values of the two attribute fields (a1, a2), in declared order
AttrTuples ==
    {<<"a", "">>, <<"", "a">>, <<None, "b">>}

\* the records a batch is made of: every key with every attribute tuple, one record
\* whose key is None, one that lacks the key field and one with an attribute value
\* the driver cannot adapt
Records ==
    { [k |-> key, a1 |-> at[1], a2 |-> at[2]] : key \in Keys, at \in AttrTuples }
      \cup { [k |-> key, a1 |-> "a", a2 |-> ""] : key \in {None, Missing} }
      \cup { [k |-> "K1", a1 |-> Unadaptable, a2 |-> ""] }

VARIABLES
    tbl,          \* the SCD2 table as the connection sees it: sequence of rows, row id = position
    committed,    \* the durable table: tbl as of the last commit
    txnFailed,    \* the connection's transaction is aborted (a statement failed, no rollback)
    history,      \* ingestion_history (every insert into it is committed at once)
    lock,         \* holder of DBAdapter._lock, or NoThread
    clock,        \* the latest reading of the wall clock (_utcnow_iso)
    pc,           \* per thread: position inside upsert_scd2
    todo,         \* per thread: records of `rows` the for-loop has not reached yet
    row,          \* per thread: the loop variable `row`, the record reached last
    now,          \* per thread: local `now`
    inserted,     \* per thread: local `inserted`
    base,         \* (history) per thread: Len(tbl) when the locked section was entered
    failedIds,    \* (history) ids of rows inserted by calls that raised
    overlapped,   \* (history) some upsert_scd2 call began while another was in progress
    hasCroniter,  \* scheduler.HAS_CRONITER: the croniter import succeeded
    jobs,         \* Scheduler.jobs: the ScheduledJob objects, in declaration order
    pollNow,      \* `now` of the latest due_jobs call
    ready,        \* the list the latest due_jobs call returned (positions in jobs)
    dueRaised,    \* the latest due_jobs call raised instead of returning
    claimedAt,    \* (history) per job: `now` of the latest call that returned it, -1 if none
    source,       \* the "jobs" list of the schedule document that from_file has read
    lastCall,     \* (history) the latest direct call of a ScheduledJob method and its outcome
    asyncMode,    \* IngestionManager.async_mode
    cyclePc,      \* position of the main thread: idle between run_once calls, inside one, or raised
    cycle,        \* (history) number of run_once calls so far that found a job due
    pos,          \* sequential mode: position in `jobs` (the due list) of the for-loop of run_once
    task,         \* per job: position of its _run_job call in the current cycle
    local,        \* per job: locals of its _run_job call (start, result, the exception caught)
    perf,         \* the latest reading of time.perf_counter()
    invoked,      \* (history) per job: calls of its callable in the current cycle
    cli,          \* run_from_cli: its position, the --dry-run flag, whether a DBAdapter exists, the lines printed
    ledgerCall    \* (history) the latest log_history / fetch_history call of a job thread and what it returned

vars ==
    <<tbl, committed, txnFailed, history, lock, clock, pc, todo, row, now, inserted, base,
      failedIds, overlapped, hasCroniter, jobs, pollNow, ready, dueRaised, claimedAt,
      source, lastCall, asyncMode, cyclePc, cycle, pos, task, local, perf, invoked,
      cli, ledgerCall>>

orchVars ==
    <<asyncMode, cyclePc, cycle, pos, task, local, perf, invoked, cli>>

schedVars ==
    <<hasCroniter, jobs, pollNow, ready, dueRaised, claimedAt, source, lastCall>>

dbVars ==
    <<tbl, committed, txnFailed, history>>
threadVars ==
    <<pc, todo, row, now, inserted, base>>
ghostVars ==
    <<failedIds, overlapped, ledgerCall>>
upsertVars ==
    <<dbVars, lock, clock, threadVars, ghostVars>>

\* ------------------------------------------------------------ pure helpers
\* _compute_hash: "" for None, str(value) otherwise, fed to the hasher field by field
HashText(value) ==
    IF value = None THEN "" ELSE value

compute_hash(record) ==
    HashText(record.a1) \o HashText(record.a2)

\* SELECT id ... WHERE k=%s AND is_current=1 ORDER BY id DESC LIMIT 1; 0 when no row.
\* k = NULL is never true in SQL, so a None key selects nothing.
CurrentIds(table, key) ==
    { i \in 1..Len(table) : key # None /\ table[i].k = key /\ table[i].is_current = 1 }

SetMax(S) ==
    CHOOSE m \in S : \A x \in S : x <= m

\* the query with the flag tested for 0 instead of 1
SelectCurrent_Closed(table, key) ==
    LET ids == { i \in 1..Len(table) : key # None /\ table[i].k = key /\ table[i].is_current = 0 }
    IN  IF ids = {} THEN 0 ELSE SetMax(ids)

SelectCurrent(table, key) ==
    IF CurrentIds(table, key) = {} THEN 0 ELSE SetMax(CurrentIds(table, key))

\* the UPDATE without is_current=0
CloseRow_KeepsCurrent(table, id, ts) ==
    [table EXCEPT ![id].valid_to = ts]

\* the UPDATE without valid_to=%s
CloseRow_KeepsValidTo(table, id, ts) ==
    [table EXCEPT ![id].is_current = 0]

\* UPDATE ... SET valid_to=%s, is_current=0 WHERE id=%s
CloseRow(table, id, ts) ==
    [table EXCEPT ![id].valid_to = ts, ![id].is_current = 0]

\* the new version written over the newest row instead of appended
InsertRow_InPlace(table, record, ts, hash) ==
    LET new == [id |-> Len(table) + 1, k |-> record.k, a1 |-> record.a1, a2 |-> record.a2,
                valid_from |-> ts, valid_to |-> Sentinel, is_current |-> 1,
                row_hash |-> hash]
    IN  IF table = <<>> THEN <<new>>
        ELSE [table EXCEPT ![Len(table)] = [new EXCEPT !.id = Len(table)]]

\* INSERT INTO ... VALUES (..., now, sentinel, 1, row_hash)
InsertRow(table, record, ts, hash) ==
    Append(table, [id |-> Len(table) + 1, k |-> record.k, a1 |-> record.a1, a2 |-> record.a2,
                   valid_from |-> ts, valid_to |-> Sentinel, is_current |-> 1,
                   row_hash |-> hash])

\* inserted = 1 instead of inserted += 1
CountInsert_Assign(count) ==
    1

\* the insert not counted
CountInsert_Skip(count) ==
    count

\* line 253: inserted += 1
CountInsert(count) ==
    count + 1

\* no job thread has called log_history or fetch_history yet.  id is what the latest
\* log_history call returned, limit and rows are the argument and the result of the
\* latest fetch_history call
NoLedgerCall ==
    [op |-> "none", id |-> 0, limit |-> 0, rows |-> <<>>]

\* --------------------------------------------------------------- initial
\* DBAdapter.__init__: connection open, ensure_history_schema committed, nothing stored yet
InitDB ==
    /\ tbl = <<>>
    /\ committed = <<>>
    /\ txnFailed = FALSE
    /\ history = <<>>
    /\ lock = NoThread
    /\ clock = 0
    /\ pc = [t \in Threads |-> "idle"]
    /\ todo = [t \in Threads |-> 0]
    /\ row = [t \in Threads |-> NoRow]
    /\ now = [t \in Threads |-> 0]
    /\ inserted = [t \in Threads |-> 0]
    /\ base = [t \in Threads |-> 0]
    /\ failedIds = {}
    /\ overlapped = FALSE
    /\ ledgerCall = NoLedgerCall

\* no method of a ScheduledJob has been called directly yet.  op is the method called
\* last (with the bool it returned, for due); now, result and raised are the argument
\* and the outcome of the latest compute_next_run call, again tells that the call
\* before it had the same argument
NoCall ==
    [op |-> "none", now |-> -1, result |-> 0, raised |-> FALSE, again |-> FALSE]

\* the manager was not started from the command line
NoCli ==
    [pc |-> "none", dry_run |-> FALSE, connected |-> TRUE, printed |-> <<>>]

\* IngestionManager.__init__ with async_mode left at its default; run_once has not
\* been called
InitIdle ==
    /\ cli = NoCli
    /\ asyncMode = FALSE
    /\ cyclePc = "idle"
    /\ cycle = 0
    /\ pos = 1
    /\ task = <<>>
    /\ local = <<>>
    /\ perf = 0
    /\ invoked = <<>>

\* IngestionManager.__init__: self._schedule = None
Init ==
    /\ InitDB
    /\ hasCroniter = FALSE
    /\ jobs = <<>>
    /\ pollNow = 0
    /\ ready = <<>>
    /\ dueRaised = FALSE
    /\ claimedAt = <<>>
    /\ source = <<>>
    /\ lastCall = NoCall
    /\ InitIdle

\* rows that the calls in progress may still insert (keeps the table within MaxRows)
RECURSIVE TodoSum(_)
TodoSum(S) ==
    IF S = {} THEN 0
    ELSE LET t == CHOOSE x \in S : TRUE IN todo[t] + TodoSum(S \ {t})

\* the thread's locals once the call has returned or raised
Leave(t) ==
    /\ pc' = [pc EXCEPT ![t] = "idle"]
    /\ todo' = [todo EXCEPT ![t] = 0]
    /\ row' = [row EXCEPT ![t] = NoRow]
    /\ now' = [now EXCEPT ![t] = 0]
    /\ inserted' = [inserted EXCEPT ![t] = 0]
    /\ base' = [base EXCEPT ![t] = 0]

\* ------------------------------------------------------------- upsert_scd2
\* lines 208-214: rows = list(records); an empty batch returns 0; ensure_scd2_table runs
\* its DDL under the lock and commits the shared connection (on an aborted transaction
\* the DDL raises instead).  n = len(rows); the records themselves are drawn when the
\* loop reaches them, which the loop, never looking ahead, cannot tell from a list
\* drawn here.
UpsertBegin(t, n) ==
    /\ pc[t] = "idle"
    /\ lock = NoThread
    /\ Len(tbl) + TodoSum(Threads) + n <= MaxRows
    /\ overlapped' = (overlapped \/ (n > 0 /\ ~txnFailed /\ \E u \in Threads \ {t} : pc[u] # "idle"))
    /\ IF n = 0 \/ txnFailed
         THEN UNCHANGED <<pc, todo, committed>>
         ELSE /\ pc' = [pc EXCEPT ![t] = "clock"]
              /\ todo' = [todo EXCEPT ![t] = n]
              /\ committed' = tbl
    /\ UNCHANGED <<tbl, txnFailed, history, lock, clock, row, now, inserted, base, failedIds, ledgerCall,
                   schedVars, orchVars>>

\* lines 216-217: inserted = 0; now = _utcnow_iso(), outside the lock.  The clock has
\* moved on by some amount since it was last read.
ReadClock(t, reading) ==
    /\ pc[t] = "clock"
    /\ reading >= clock
    /\ clock' = reading
    /\ now' = [now EXCEPT ![t] = reading]
    /\ inserted' = [inserted EXCEPT ![t] = 0]
    /\ pc' = [pc EXCEPT ![t] = "lock"]
    /\ UNCHANGED <<dbVars, lock, todo, row, base, ghostVars, schedVars, orchVars>>

\* lines 218-219: with self._lock: cursor = self._get_cursor()
Acquire(t) ==
    /\ pc[t] = "lock"
    /\ lock = NoThread
    /\ lock' = t
    /\ pc' = [pc EXCEPT ![t] = "loop"]
    /\ base' = [base EXCEPT ![t] = Len(tbl)]
    /\ UNCHANGED <<dbVars, clock, todo, row, now, inserted, ghostVars, schedVars, orchVars>>

\* an exception leaves the with-block: the lock is released, nothing is committed and
\* nothing is rolled back; the writes made so far stay in the open transaction
Raise(t, table) ==
    /\ Leave(t)
    /\ lock' = NoThread
    /\ failedIds' = failedIds \cup (base[t] + 1 .. Len(table))

\* lines 220-253: one iteration of the for-loop, under the lock, for the record `row` = record
UpsertRecord(t, record) ==
    /\ pc[t] = "loop"
    /\ todo[t] > 0
    /\ LET row_hash == compute_hash(record)
           current  == SelectCurrent(tbl, record.k)
           closed   == IF current # 0 THEN CloseRow(tbl, current, now[t]) ELSE tbl
       IN  IF record.k = Missing
             THEN \* key_values = [row[field] ...] raises KeyError
                  /\ Raise(t, tbl)
                  /\ UNCHANGED <<tbl, txnFailed>>
           ELSE IF txnFailed
             THEN \* the SELECT raises: the current transaction is aborted
                  /\ Raise(t, tbl)
                  /\ UNCHANGED <<tbl, txnFailed>>
           ELSE IF current # 0 /\ tbl[current].row_hash = row_hash
             THEN \* continue
                  /\ todo' = [todo EXCEPT ![t] = @ - 1]
                  /\ row' = [row EXCEPT ![t] = record]
                  /\ UNCHANGED <<tbl, txnFailed, pc, now, inserted, base, lock, failedIds>>
           ELSE IF Unadaptable \in {record.a1, record.a2}
             THEN \* the UPDATE, if any, is executed; the INSERT raises in the driver
                  \* and is not executed
                  /\ tbl' = closed
                  /\ Raise(t, closed)
                  /\ UNCHANGED txnFailed
           ELSE IF record.k = None
             THEN \* the INSERT violates NOT NULL: the statement fails and the
                  \* transaction is aborted
                  /\ txnFailed' = TRUE
                  /\ tbl' = closed
                  /\ Raise(t, closed)
           ELSE /\ tbl' = InsertRow(closed, record, now[t], row_hash)
                /\ inserted' = [inserted EXCEPT ![t] = CountInsert(@)]
                /\ todo' = [todo EXCEPT ![t] = @ - 1]
                /\ row' = [row EXCEPT ![t] = record]
                /\ UNCHANGED <<txnFailed, pc, now, base, lock, failedIds>>
    /\ UNCHANGED <<committed, history, clock, overlapped, ledgerCall, schedVars, orchVars>>

\* lines 254-255: self._conn.commit(); leave the lock; return inserted
UpsertCommit(t) ==
    /\ pc[t] = "loop"
    /\ todo[t] = 0
    /\ committed' = tbl
    /\ lock' = NoThread
    /\ Leave(t)
    /\ UNCHANGED <<tbl, txnFailed, history, clock, ghostVars, schedVars, orchVars>>

\* ------------------------------------------------------------- log_history
\* lines 89-111: INSERT INTO ingestion_history ... RETURNING id; commit - under the lock.
\* On an aborted transaction the INSERT raises and nothing changes.
LogHistory(t, event) ==
    /\ pc[t] = "idle"
    /\ lock = NoThread
    /\ ~txnFailed
    /\ Len(history) < MaxHist
    /\ history' = Append(history, [id |-> Len(history) + 1] @@ event)
    /\ committed' = tbl
    /\ ledgerCall' = [NoLedgerCall EXCEPT !.op = "log_history",
                                          !.id = history'[Len(history')].id]
    /\ UNCHANGED <<tbl, txnFailed, lock, clock, threadVars, failedIds, overlapped,
                   schedVars, orchVars>>

Events ==
    { [job_name |-> "job", event_type |-> "job_error", status |-> "failed"] }

NextUpsert ==
    \/ \E t \in Threads, n \in 0..MaxBatch : UpsertBegin(t, n)
    \/ \E t \in Threads, reading \in 0..MaxClock : ReadClock(t, reading)
    \/ \E t \in Threads : Acquire(t)
    \/ \E t \in Threads, record \in Records : UpsertRecord(t, record)
    \/ \E t \in Threads : UpsertCommit(t)
    \/ \E t \in Threads, event \in Events : LogHistory(t, event)

SpecUpsert ==
    Init /\ [][NextUpsert]_vars

\* ----------------------------------------------------------- fetch_history
\* the rows ordered by id, smallest first
RECURSIVE OrderById_Ascending(_)
OrderById_Ascending(rows) ==
    IF rows = {} THEN <<>>
    ELSE LET first == CHOOSE r \in rows : \A other \in rows : other.id >= r.id
         IN  <<first>> \o OrderById_Ascending(rows \ {first})

\* ORDER BY id DESC
RECURSIVE OrderById(_)
OrderById(rows) ==
    IF rows = {} THEN <<>>
    ELSE LET first == CHOOSE r \in rows : \A other \in rows : other.id <= r.id
         IN  <<first>> \o OrderById(rows \ {first})

\* lines 113-121: SELECT * FROM ingestion_history ORDER BY id DESC LIMIT %s, each row
\* turned into a dict
fetch_history(ledger, limit) ==
    LET rows == OrderById({ ledger[e] : e \in 1..Len(ledger) })
    IN  SubSeq(rows, 1, IF limit < Len(rows) THEN limit ELSE Len(rows))

\* the SELECT runs under the lock and commits nothing; on an aborted transaction it
\* raises
FetchHistory(t, limit) ==
    /\ pc[t] = "idle"
    /\ lock = NoThread
    /\ ~txnFailed
    /\ ledgerCall' = [NoLedgerCall EXCEPT !.op = "fetch_history",
                                          !.limit = limit,
                                          !.rows = fetch_history(history, limit)]
    /\ UNCHANGED <<dbVars, lock, clock, threadVars, failedIds, overlapped, schedVars, orchVars>>

\* the events written to the ledger while it is read
LedgerEvents ==
    Events \cup { [job_name |-> "job", event_type |-> "data_load", status |-> "success"] }

\* the values of `limit`
Limits ==
    0..(MaxHist + 1)

\* one job thread upserts batches of at most one record while both threads append to
\* the ledger and read it
NextLedger ==
    \/ \E n \in {0, 1} : UpsertBegin("t1", n)
    \/ \E reading \in 0..MaxClock : ReadClock("t1", reading)
    \/ Acquire("t1")
    \/ \E record \in Records : UpsertRecord("t1", record)
    \/ UpsertCommit("t1")
    \/ \E t \in Threads, event \in LedgerEvents : LogHistory(t, event)
    \/ \E t \in Threads, limit \in Limits : FetchHistory(t, limit)

SpecLedger ==
    Init /\ [][NextLedger]_vars

\* ------------------------------------------------- two processes, one store
\* Two processes, each with its own DBAdapter - its own connection and its own lock -
\* work on the same database.  Thread t1 is the job thread of one process, t2 that of
\* the other; `lock` holds, per process, the holder of that process's lock.  Each
\* process makes one upsert_scd2 call.  A row carries, besides its columns, the
\* process whose transaction wrote it (xmin) and whether that transaction has
\* committed (durable): a connection sees the durable rows and its own (READ
\* COMMITTED, the default isolation level).  The table has no unique constraint
\* (ensure_scd2_table creates plain indexes), so no INSERT is refused.
\* the records of the batches: those that have a key and that the driver can adapt
ProcRecords ==
    { record \in Records : record.k \in Keys /\ Unadaptable \notin {record.a1, record.a2} }

\* a connection that sees only the rows it wrote itself
Visible_OwnOnly(p) ==
    [i \in 1..Len(tbl) |-> IF tbl[i].xmin = p THEN tbl[i] ELSE NoRow]

\* the table as the connection of process p sees it; a row it cannot see is not
\* there for its SELECT
Visible(p) ==
    [i \in 1..Len(tbl) |-> IF tbl[i].durable \/ tbl[i].xmin = p THEN tbl[i] ELSE NoRow]

\* the rows written by the statement just executed get their writer; seen is the
\* id of the current row the SELECT before the INSERT returned, 0 for none
Written(table, p, current) ==
    [i \in 1..Len(table) |->
        IF "xmin" \in DOMAIN table[i] THEN table[i]
        ELSE table[i] @@ [xmin |-> p, durable |-> FALSE, seen |-> current]]

InitProcs ==
    /\ tbl = <<>>
    /\ committed = <<>>
    /\ txnFailed = FALSE
    /\ history = <<>>
    /\ lock = [p \in Threads |-> NoThread]
    /\ clock = 0
    /\ pc = [t \in Threads |-> "idle"]
    /\ todo = [t \in Threads |-> 0]
    /\ row = [t \in Threads |-> NoRow]
    /\ now = [t \in Threads |-> 0]
    /\ inserted = [t \in Threads |-> 0]
    /\ base = [t \in Threads |-> 0]
    /\ failedIds = {}
    /\ overlapped = FALSE
    /\ ledgerCall = NoLedgerCall
    /\ hasCroniter = FALSE
    /\ jobs = <<>>
    /\ pollNow = 0
    /\ ready = <<>>
    /\ dueRaised = FALSE
    /\ claimedAt = <<>>
    /\ source = <<>>
    /\ lastCall = NoCall
    /\ InitIdle

\* lines 208-214 in process p: a batch of n records; ensure_scd2_table commits the
\* process's own connection, which has written nothing yet
ProcBegin(p, n) ==
    /\ pc[p] = "idle"
    /\ Len(tbl) + TodoSum(Threads) + n <= MaxRows
    /\ overlapped' = (overlapped \/ \E u \in Threads \ {p} : pc[u] \in {"clock", "lock", "loop"})
    /\ pc' = [pc EXCEPT ![p] = "clock"]
    /\ todo' = [todo EXCEPT ![p] = n]
    /\ UNCHANGED <<dbVars, lock, clock, row, now, inserted, base, failedIds, ledgerCall,
                   schedVars, orchVars>>

\* lines 216-217 in process p
ProcReadClock(p, reading) ==
    /\ pc[p] = "clock"
    /\ reading >= clock
    /\ clock' = reading
    /\ now' = [now EXCEPT ![p] = reading]
    /\ inserted' = [inserted EXCEPT ![p] = 0]
    /\ pc' = [pc EXCEPT ![p] = "lock"]
    /\ UNCHANGED <<dbVars, lock, todo, row, base, ghostVars, schedVars, orchVars>>

\* lines 218-219 in process p: the lock of its own adapter, which nothing in the
\* other process ever holds
ProcAcquire(p) ==
    /\ pc[p] = "lock"
    /\ lock[p] = NoThread
    /\ lock' = [lock EXCEPT ![p] = p]
    /\ pc' = [pc EXCEPT ![p] = "loop"]
    /\ base' = [base EXCEPT ![p] = Len(tbl)]
    /\ UNCHANGED <<dbVars, clock, todo, row, now, inserted, ghostVars, schedVars, orchVars>>

\* lines 220-253 in process p: SELECT on what its connection sees, then continue, or
\* UPDATE and INSERT in its open transaction
ProcRecord(p, record) ==
    /\ pc[p] = "loop"
    /\ lock[p] = p
    /\ todo[p] > 0
    /\ LET row_hash == compute_hash(record)
           current  == SelectCurrent(Visible(p), record.k)
           closed   == IF current # 0 THEN CloseRow(tbl, current, now[p]) ELSE tbl
       IN  IF current # 0 /\ tbl[current].row_hash = row_hash
             THEN UNCHANGED <<tbl, inserted>>
             ELSE /\ tbl' = Written(InsertRow(closed, record, now[p], row_hash), p, current)
                  /\ inserted' = [inserted EXCEPT ![p] = CountInsert(@)]
    /\ todo' = [todo EXCEPT ![p] = @ - 1]
    /\ row' = [row EXCEPT ![p] = record]
    /\ UNCHANGED <<committed, txnFailed, history, lock, clock, pc, now, base, ghostVars,
                   schedVars, orchVars>>

\* lines 254-255 in process p: commit - its rows become durable and visible to the
\* other connection - and return; the process makes no further call
ProcCommit(p) ==
    /\ pc[p] = "loop"
    /\ todo[p] = 0
    /\ tbl' = [i \in 1..Len(tbl) |->
                 IF tbl[i].xmin = p THEN [tbl[i] EXCEPT !.durable = TRUE] ELSE tbl[i]]
    /\ committed' = SelectSeq(tbl', LAMBDA r : r.durable)
    /\ lock' = [lock EXCEPT ![p] = NoThread]
    /\ pc' = [pc EXCEPT ![p] = "done"]
    /\ row' = [row EXCEPT ![p] = NoRow]
    /\ UNCHANGED <<txnFailed, history, clock, todo, now, inserted, base, ghostVars,
                   schedVars, orchVars>>

NextProcs ==
    \/ \E p \in Threads, n \in 1..MaxBatch : ProcBegin(p, n)
    \/ \E p \in Threads, reading \in 0..MaxClock : ProcReadClock(p, reading)
    \/ \E p \in Threads : ProcAcquire(p)
    \/ \E p \in Threads, record \in ProcRecords : ProcRecord(p, record)
    \/ \E p \in Threads : ProcCommit(p)

SpecProcs ==
    InitProcs /\ [][NextProcs]_vars

\* ======================================================================
\* The schedule engine (manager/scheduler.py)
\*
\* An instant is a whole number of seconds since a Monday 00:00:00 UTC; every
\* datetime of the engine is UTC.
\* ======================================================================
\* days from which due_jobs is polled
MaxDay ==
    1

\* timedelta(days=1), in seconds
Day ==
    86400
\* days in timedelta(days=7) and in `% 7`
DaysPerWeek ==
    7
SecondsPerHour ==
    3600
SecondsPerMinute ==
    60
\* schedule.get("seconds", 300) and the default schedule of from_file
DefaultSeconds ==
    300

\* dict.get(field, default)
Get(dict, field, default) ==
    IF field \in DOMAIN dict THEN dict[field] ELSE default

DigitValue(c) ==
    CASE c = "0" -> 0 [] c = "1" -> 1 [] c = "2" -> 2 [] c = "3" -> 3 [] c = "4" -> 4
      [] c = "5" -> 5 [] c = "6" -> 6 [] c = "7" -> 7 [] c = "8" -> 8 [] c = "9" -> 9

\* int(part) of a string of decimal digits
RECURSIVE ToInt(_)
ToInt(part) ==
    IF Len(part) = 0 THEN 0
    ELSE 10 * ToInt(SubSeq(part, 1, Len(part) - 1))
           + DigitValue(SubSeq(part, Len(part), Len(part)))

\* position of the first ":" of value
ColonAt(value) ==
    CHOOSE i \in 1..Len(value) :
        /\ SubSeq(value, i, i) = ":"
        /\ \A j \in 1..(i - 1) : SubSeq(value, j, j) # ":"

\* _parse_time: "HH:MM" split at the first ":" into hour and minute; the result is
\* the time of day in seconds after midnight UTC
parse_time(value) ==
    LET hour   == ToInt(SubSeq(value, 1, ColonAt(value) - 1))
        minute == ToInt(SubSeq(value, ColonAt(value) + 1, Len(value)))
    IN  hour * SecondsPerHour + minute * SecondsPerMinute

WeekdayNames ==
    {"monday", "tuesday", "wednesday", "thursday", "friday", "saturday", "sunday"}

\* _weekday_to_int, for a name already in lower case
weekday_to_int(value) ==
    CASE value = "monday" -> 0 [] value = "tuesday" -> 1 [] value = "wednesday" -> 2
      [] value = "thursday" -> 3 [] value = "friday" -> 4 [] value = "saturday" -> 5
      [] value = "sunday" -> 6

\* now.date(), as the instant of its midnight, and now.weekday() (Monday = 0)
DateOf(instant) ==
    (instant \div Day) * Day

WeekdayOf(instant) ==
    (instant \div Day) % DaysPerWeek

\* candidate <= now tested as candidate < now
DailyNextRun_Strict(schedule, instant) ==
    LET candidate == DateOf(instant) + parse_time(schedule["time"])
    IN  IF candidate < instant THEN candidate + Day ELSE candidate

\* compute_next_run, lines 49-54
DailyNextRun(schedule, instant) ==
    LET candidate == DateOf(instant) + parse_time(schedule["time"])
    IN  IF candidate <= instant THEN candidate + Day ELSE candidate

\* candidate <= now tested as candidate < now
WeeklyNextRun_Strict(schedule, instant) ==
    LET at             == parse_time(schedule["time"])
        target_weekday == weekday_to_int(schedule["weekday"])
        days_ahead     == (target_weekday - WeekdayOf(instant)) % DaysPerWeek
        candidate      == DateOf(instant) + days_ahead * Day + at
    IN  IF candidate < instant THEN candidate + DaysPerWeek * Day ELSE candidate

\* compute_next_run, lines 55-63
WeeklyNextRun(schedule, instant) ==
    LET at             == parse_time(schedule["time"])
        target_weekday == weekday_to_int(schedule["weekday"])
        days_ahead     == (target_weekday - WeekdayOf(instant)) % DaysPerWeek
        candidate      == DateOf(instant) + days_ahead * Day + at
    IN  IF candidate <= instant THEN candidate + DaysPerWeek * Day ELSE candidate

\* _compute_next_run_cron with croniter present: the first instant after now that the
\* expression matches; the expressions of the model are the default "0 0 * * *"
\* (every midnight) and "0 * * * *" (every full hour)
CronNextRun(expression, instant) ==
    IF expression = "0 * * * *"
      THEN (instant \div SecondsPerHour + 1) * SecondsPerHour
      ELSE DateOf(instant) + Day

\* a cron schedule without croniter taken as a soft no-op instead of an error
ComputeRaises_SoftCron(schedule) ==
    LET schedule_type == Get(schedule, "type", "interval")
    IN  \/ schedule_type = "daily" /\ "time" \notin DOMAIN schedule
        \/ schedule_type = "weekly"
             /\ \/ "time" \notin DOMAIN schedule
                \/ "weekday" \notin DOMAIN schedule
                \/ schedule["weekday"] \notin WeekdayNames

\* compute_next_run raises: a missing "time" or "weekday" entry or an unknown weekday
\* (KeyError), or a cron schedule without croniter (RuntimeError)
ComputeRaises(schedule) ==
    LET schedule_type == Get(schedule, "type", "interval")
    IN  \/ schedule_type = "daily" /\ "time" \notin DOMAIN schedule
        \/ schedule_type = "weekly"
             /\ \/ "time" \notin DOMAIN schedule
                \/ "weekday" \notin DOMAIN schedule
                \/ schedule["weekday"] \notin WeekdayNames
        \/ schedule_type = "cron" /\ ~hasCroniter

\* an interval counted from the job's stored next_run instead of from now
compute_next_run_FromNextRun(schedule, instant) ==
    LET schedule_type == Get(schedule, "type", "interval")
    IN  CASE schedule_type = "interval" ->
                jobs[1].next_run + Get(schedule, "seconds", DefaultSeconds)
          [] schedule_type = "daily"    -> DailyNextRun(schedule, instant)
          [] schedule_type = "weekly"   -> WeeklyNextRun(schedule, instant)
          [] schedule_type = "cron"     ->
                CronNextRun(Get(schedule, "expression", "0 0 * * *"), instant)
          [] OTHER                      -> instant

\* ScheduledJob.compute_next_run, where it does not raise
compute_next_run(schedule, instant) ==
    LET schedule_type == Get(schedule, "type", "interval")
    IN  CASE schedule_type = "interval" -> instant + Get(schedule, "seconds", DefaultSeconds)
          [] schedule_type = "daily"    -> DailyNextRun(schedule, instant)
          [] schedule_type = "weekly"   -> WeeklyNextRun(schedule, instant)
          [] schedule_type = "cron"     ->
                CronNextRun(Get(schedule, "expression", "0 0 * * *"), instant)
          [] OTHER                      -> instant

\* now >= next_run tested as now > next_run
due_Strict(job, instant) ==
    instant > job.next_run

\* ScheduledJob.due
due(job, instant) ==
    instant >= job.next_run

\* ------------------------------------------------------- the schedule source
\* "HH:MM" values of the daily entry
DailyTimes ==
    {"00:00", "02:00", "23:59"}

\* the "jobs" list of a schedule file: an interval entry of 300 seconds, a daily entry,
\* a disabled entry, and an entry that leaves `schedule` and `enabled` to their defaults
ScheduleFile(daily_time) ==
    << [name |-> "download_trade", enabled |-> TRUE,
        schedule |-> [type |-> "interval", seconds |-> 300]],
       [name |-> "update_region_codes", enabled |-> TRUE,
        schedule |-> [type |-> "daily", time |-> daily_time]],
       [name |-> "analyze_trade_data", enabled |-> FALSE,
        schedule |-> [type |-> "interval", seconds |-> 300]] >>

\* an interval entry that names the entry after it as a dependency, and a cron entry
\* ("0 * * * *", or no expression at all: the default "0 0 * * *")
CronFile(cron_schedule) ==
    << [name |-> "download_trade", depends_on |-> <<"fetch_building_info">>,
        schedule |-> [type |-> "interval", seconds |-> 300]],
       [name |-> "fetch_building_info", schedule |-> cron_schedule] >>

\* a weekly entry with arguments, and a disabled entry that has neither a name nor a
\* usable schedule
WeeklyFile(weekday) ==
    << [name |-> "fetch_building_info", args |-> [limit |-> "20"],
        schedule |-> [type |-> "weekly", weekday |-> weekday, time |-> "02:00"]],
       [enabled |-> FALSE, schedule |-> [type |-> "weekly"]] >>

\* an entry that leaves everything but its name to the defaults, and an entry whose
\* schedule type is none of interval, daily, weekly, cron
DefaultsFile ==
    << [name |-> "fetch_DB_transactions"],
       [name |-> "analyze_trade_data", schedule |-> [type |-> "hourly"]] >>

\* a daily entry without its "time", declared after an interval entry
MalformedFile ==
    << [name |-> "download_trade", schedule |-> [type |-> "interval", seconds |-> 300]],
       [name |-> "update_region_codes", schedule |-> [type |-> "daily"]] >>

\* the schedule documents the manager is started with
ScheduleFiles ==
    { ScheduleFile(daily_time) : daily_time \in DailyTimes }
      \cup { CronFile(cron_schedule) :
               cron_schedule \in { [type |-> "cron", expression |-> "0 * * * *"],
                                   [type |-> "cron"] } }
      \cup { WeeklyFile(weekday) : weekday \in {"monday", "tuesday", "sunday"} }
      \cup { DefaultsFile, MalformedFile }

\* the instant at which the schedule is loaded
LoadTime ==
    0

\* an empty dict
EmptyDict ==
    [field \in {} |-> ""]

\* next_run initialised to the first scheduled run after the load instant
RECURSIVE from_file_FirstRunFromPolicy(_)
from_file_FirstRunFromPolicy(entries) ==
    IF entries = <<>> THEN <<>>
    ELSE LET entry    == Head(entries)
             schedule == Get(entry, "schedule",
                             [type |-> "interval", seconds |-> DefaultSeconds])
         IN  IF ~Get(entry, "enabled", TRUE)
               THEN from_file_FirstRunFromPolicy(Tail(entries))
               ELSE << [name |-> entry.name,
                        args |-> Get(entry, "args", EmptyDict),
                        schedule |-> schedule,
                        depends_on |-> Get(entry, "depends_on", <<>>),
                        next_run |-> IF ComputeRaises(schedule) THEN LoadTime
                                     ELSE compute_next_run(schedule, LoadTime)] >>
                      \o from_file_FirstRunFromPolicy(Tail(entries))

\* the enabled flag not looked at: every entry becomes a job
RECURSIVE from_file_KeepsDisabled(_)
from_file_KeepsDisabled(entries) ==
    IF entries = <<>> THEN <<>>
    ELSE LET entry == Head(entries)
         IN  << [name |-> Get(entry, "name", ""),
                 args |-> Get(entry, "args", EmptyDict),
                 schedule |-> Get(entry, "schedule",
                                  [type |-> "interval", seconds |-> DefaultSeconds]),
                 depends_on |-> Get(entry, "depends_on", <<>>),
                 next_run |-> LoadTime] >> \o from_file_KeepsDisabled(Tail(entries))

\* Scheduler.from_file: disabled entries are skipped, every other entry becomes a
\* ScheduledJob whose next_run is the instant of its construction
RECURSIVE from_file(_)
from_file(entries) ==
    IF entries = <<>> THEN <<>>
    ELSE LET entry == Head(entries)
         IN  IF ~Get(entry, "enabled", TRUE)
               THEN from_file(Tail(entries))
               ELSE << [name |-> entry.name,
                        args |-> Get(entry, "args", EmptyDict),
                        schedule |-> Get(entry, "schedule",
                                         [type |-> "interval", seconds |-> DefaultSeconds]),
                        depends_on |-> Get(entry, "depends_on", <<>>),
                        next_run |-> LoadTime] >> \o from_file(Tail(entries))

\* IngestionManager.load_schedule on a fresh process
InitSched ==
    /\ InitDB
    /\ hasCroniter \in BOOLEAN
    /\ source \in ScheduleFiles
    /\ jobs = from_file(source)
    /\ pollNow = LoadTime
    /\ ready = <<>>
    /\ dueRaised = FALSE
    /\ claimedAt = [i \in 1..Len(jobs) |-> -1]
    /\ lastCall = NoCall
    /\ InitIdle

\* seconds after midnight at which the loop polls
PollSeconds ==
    {0, 1, 299, 300, 301, 600, 3600, 7199, 7200, 7201, 7500, 10800, 86339, 86340, 86399}

PollTimes ==
    { d * Day + sec : d \in 0..MaxDay, sec \in PollSeconds }

\* missed periods caught up: a job whose following run is due as well is listed twice
RECURSIVE ReadyFrom_CatchUp(_, _)
ReadyFrom_CatchUp(i, instant) ==
    IF i > Len(jobs) THEN <<>>
    ELSE (IF ~due(jobs[i], instant) THEN <<>>
          ELSE IF ~ComputeRaises(jobs[i].schedule)
                    /\ compute_next_run(jobs[i].schedule, jobs[i].next_run) > jobs[i].next_run
                    /\ compute_next_run(jobs[i].schedule, jobs[i].next_run) <= instant
                 THEN <<i, i>>
                 ELSE <<i>>) \o ReadyFrom_CatchUp(i + 1, instant)

\* ready = [job for job in self.jobs if job.due(now)], as positions in jobs
RECURSIVE ReadyFrom(_, _)
ReadyFrom(i, instant) ==
    IF i > Len(jobs) THEN <<>>
    ELSE (IF due(jobs[i], instant) THEN <<i>> ELSE <<>>) \o ReadyFrom(i + 1, instant)

\* how many jobs of `list` mark_executed gets through before compute_next_run raises
RECURSIVE MarkedPrefix(_)
MarkedPrefix(list) ==
    IF list = <<>> \/ ComputeRaises(jobs[Head(list)].schedule) THEN 0
    ELSE 1 + MarkedPrefix(Tail(list))

\* Scheduler.due_jobs(now): the due jobs in declaration order, mark_executed(now) on
\* each in turn; an exception of compute_next_run ends the call after the jobs before
\* it have been advanced
due_jobs(instant) ==
    /\ jobs # <<>>
    /\ instant >= pollNow
    /\ LET list   == ReadyFrom(1, instant)
           marked == { list[n] : n \in 1..MarkedPrefix(list) }
           raised == MarkedPrefix(list) < Len(list)
       IN  /\ jobs' = [i \in 1..Len(jobs) |->
                         IF i \in marked
                           THEN [jobs[i] EXCEPT !.next_run =
                                                  compute_next_run(jobs[i].schedule, instant)]
                           ELSE jobs[i]]
           /\ dueRaised' = raised
           /\ ready' = IF raised THEN <<>> ELSE list
           /\ claimedAt' = [i \in 1..Len(jobs) |->
                              IF ~raised /\ i \in marked THEN instant ELSE claimedAt[i]]
    /\ pollNow' = instant

\* a due_jobs call by itself
DueJobs(instant) ==
    /\ due_jobs(instant)
    /\ UNCHANGED <<hasCroniter, source, lastCall, upsertVars, orchVars>>

NextSched ==
    \E instant \in PollTimes : DueJobs(instant)

SpecSched ==
    InitSched /\ [][NextSched]_vars

\* ----------------------------------------------- the methods of a ScheduledJob
\* the schedule descriptors a job is constructed with: every weekday at two times of
\* day, the daily times, an interval with and without its seconds, both cron
\* expressions and an unrecognised type
Policies ==
    { [type |-> "weekly", weekday |-> weekday, time |-> at] :
          weekday \in WeekdayNames, at \in {"00:00", "09:00"} }
      \cup { [type |-> "daily", time |-> at] : at \in DailyTimes }
      \cup { [type |-> "interval", seconds |-> 300], [type |-> "interval"] }
      \cup { [type |-> "cron", expression |-> "0 * * * *"], [type |-> "cron"] }
      \cup { [type |-> "hourly"] }

\* the instants `now` the methods are called with: 00:00, 08:00, 09:00 and 10:00 on
\* each day
CallSeconds ==
    {0, 8 * SecondsPerHour, 9 * SecondsPerHour, 10 * SecondsPerHour}

CallTimes ==
    { d * Day + sec : d \in 0..(MaxDay + 5), sec \in CallSeconds }

\* a process whose schedule holds one job of some policy
InitCompute ==
    /\ InitDB
    /\ hasCroniter \in BOOLEAN
    /\ source \in { << [name |-> "download_trade", schedule |-> policy] >> :
                       policy \in Policies }
    /\ jobs = from_file(source)
    /\ pollNow = LoadTime
    /\ ready = <<>>
    /\ dueRaised = FALSE
    /\ claimedAt = [i \in 1..Len(jobs) |-> -1]
    /\ lastCall = NoCall
    /\ InitIdle

\* job.compute_next_run(now): reads self.schedule and now, assigns nothing
ComputeNextRun(i, instant) ==
    /\ i \in 1..Len(jobs)
    /\ lastCall' = [op |-> "compute_next_run", now |-> instant,
                     result |-> IF ComputeRaises(jobs[i].schedule) THEN 0
                                ELSE compute_next_run(jobs[i].schedule, instant),
                     raised |-> ComputeRaises(jobs[i].schedule),
                     again |-> (lastCall.now = instant)]
    /\ UNCHANGED <<hasCroniter, jobs, pollNow, ready, dueRaised, claimedAt, source, upsertVars, orchVars>>

\* job.due(now): reads self.next_run and now, assigns nothing; the result is a bool
Due(i, instant) ==
    /\ i \in 1..Len(jobs)
    /\ lastCall' = [lastCall EXCEPT !.op = IF due(jobs[i], instant) THEN "due: True"
                                                                      ELSE "due: False"]
    /\ UNCHANGED <<hasCroniter, jobs, pollNow, ready, dueRaised, claimedAt, source, upsertVars, orchVars>>

\* job.mark_executed(now): self.next_run = self.compute_next_run(now); when the
\* computation raises, the assignment does not happen
MarkExecuted(i, instant) ==
    /\ i \in 1..Len(jobs)
    /\ lastCall' = [lastCall EXCEPT !.op = "mark_executed"]
    /\ IF ComputeRaises(jobs[i].schedule)
         THEN UNCHANGED jobs
         ELSE jobs' = [jobs EXCEPT ![i].next_run =
                                     compute_next_run(jobs[i].schedule, instant)]
    /\ UNCHANGED <<hasCroniter, pollNow, ready, dueRaised, claimedAt, source, upsertVars, orchVars>>

NextCompute ==
    \/ \E i \in 1..Len(jobs), instant \in CallTimes : ComputeNextRun(i, instant)
    \/ \E i \in 1..Len(jobs), instant \in CallTimes : Due(i, instant)
    \/ \E i \in 1..Len(jobs), instant \in CallTimes : MarkExecuted(i, instant)

SpecCompute ==
    InitCompute /\ [][NextCompute]_vars

\* ======================================================================
\* The orchestrator (manager/core.py)
\*
\* run_once polls the schedule and runs the due jobs, one after another or, in
\* async mode, each in a thread of the default executor.  A job callable is code
\* outside the manager: what the model knows of one run is whether it returned or
\* raised, what it returned, and whether a storage statement it issued on the shared
\* connection failed (which leaves the connection's transaction aborted).
\* ======================================================================
\* rows the history ledger may hold: a run_once call is made only while the events of
\* one more cycle (a start and a terminal event per job) still fit
MaxEvents ==
    6

\* jobs/__init__.py
JOB_REGISTRY ==
    {"fetch_DB_transactions", "fetch_building_info", "download_trade",
     "update_region_codes", "analyze_trade_data"}

\* a document whose second entry names no registered job
UnknownNameFile ==
    << [name |-> "download_trade", args |-> [deal_months |-> "3"],
        schedule |-> [type |-> "interval", seconds |-> 300]],
       [name |-> "fetch_news", schedule |-> [type |-> "interval", seconds |-> 300]],
       [name |-> "update_region_codes", schedule |-> [type |-> "daily", time |-> "02:00"]] >>

\* a document of one entry, which leaves its schedule to the default
SingleJobFile ==
    << [name |-> "fetch_DB_transactions", args |-> [limit |-> "100"]] >>

\* the schedule documents the orchestrator is run with
OrchFiles ==
    { ScheduleFile("02:00"), UnknownNameFile, CronFile([type |-> "cron"]), SingleJobFile }

\* the instants at which run_once reads the clock
CycleTimes ==
    {0, 299, 300, Day}

\* stands for a value json.dumps has no encoding for (a datetime, a Path, a set)
NotJson ==
    "<datetime>"

\* what a callable returns: a dict with a row_count, a dict without one, a dict with
\* a value that JSON cannot express, None
Results ==
    { [type |-> "dict", items |-> [row_count |-> 3, table |-> "region_codes"]],
      [type |-> "dict", items |-> [status |-> "no_input"]],
      [type |-> "dict", items |-> [finished_at |-> NotJson]],
      [type |-> "NoneType", items |-> EmptyDict] }

\* db.py lines 86-88: json.dumps(details) of a Mapping raises TypeError on a value it
\* cannot encode - before the lock is taken and before any statement is sent
DumpsRaises(details) ==
    /\ details.type = "dict"
    /\ \E f \in DOMAIN details.items \ {"row_count"} : details.items[f] = NotJson

NoResult ==
    [type |-> "NoneType", items |-> EmptyDict]

\* the locals of a _run_job call that has not started
NoLocal ==
    [start |-> 0, result |-> NoResult, error |-> ""]

\* line 228: result.get("row_count") if isinstance(result, dict) else None; a column
\* value is <<v>>, NULL is <<>>
RowCount(result) ==
    IF result.type = "dict" /\ "row_count" \in DOMAIN result.items
      THEN <<result.items.row_count>>
      ELSE <<>>

\* lines 218-224, 229-238 and 241-249: the rows _run_job hands to log_history
StartEvent(job) ==
    [job_name |-> job.name, event_type |-> "job_start", status |-> "started",
     duration_ms |-> <<>>, row_count |-> <<>>, details |-> [args |-> job.args]]

EndEvent(job, result, duration) ==
    [job_name |-> job.name, event_type |-> "job_end", status |-> "success",
     duration_ms |-> <<duration>>, row_count |-> RowCount(result), details |-> result]

ErrorEvent(job, error, duration) ==
    [job_name |-> job.name, event_type |-> "job_error", status |-> "failed",
     duration_ms |-> <<duration>>, row_count |-> <<>>, details |-> [error |-> error]]

\* DBAdapter.log_history on a connection whose transaction is not aborted: the row
\* gets the next id and is committed; `cycle` (history) is the run_once call it was
\* written in
Logged(event) ==
    /\ history' = Append(history, [id |-> Len(history) + 1, cycle |-> cycle] @@ event)
    /\ committed' = tbl

\* a process started with some schedule document, in sequential or in async mode
InitOrch ==
    /\ InitDB
    /\ hasCroniter \in BOOLEAN
    /\ source \in OrchFiles
    /\ jobs = from_file(source)
    /\ pollNow = LoadTime
    /\ ready = <<>>
    /\ dueRaised = FALSE
    /\ claimedAt = [i \in 1..Len(jobs) |-> -1]
    /\ lastCall = NoCall
    /\ asyncMode \in BOOLEAN
    /\ cli = NoCli
    /\ cyclePc = "idle"
    /\ cycle = 0
    /\ pos = 1
    /\ task = [i \in 1..Len(jobs) |-> "none"]
    /\ local = [i \in 1..Len(jobs) |-> NoLocal]
    /\ perf = 0
    /\ invoked = [i \in 1..Len(jobs) |-> 0]

\* run_once, lines 273-282: now = datetime.now(timezone.utc); jobs = due_jobs(now);
\* an exception of due_jobs propagates; no due job: return
RunOnce(instant) ==
    /\ cyclePc = "idle"
    /\ Len(history) + 2 * Len(jobs) <= MaxEvents
    /\ due_jobs(instant)
    /\ cycle' = IF dueRaised' \/ ready' = <<>> THEN cycle ELSE cycle + 1
    /\ cyclePc' = IF dueRaised' THEN "raised: schedule"
                  ELSE IF ready' = <<>> THEN "idle"
                  ELSE IF asyncMode THEN "launch" ELSE "loop"
    /\ pos' = 1
    /\ task' = [i \in 1..Len(jobs) |-> "none"]
    /\ local' = [i \in 1..Len(jobs) |-> NoLocal]
    /\ invoked' = [i \in 1..Len(jobs) |-> 0]
    /\ UNCHANGED <<hasCroniter, source, lastCall, upsertVars, asyncMode, cli, perf>>

\* the exception leaves _run_job: in sequential mode it leaves run_once at once, in
\* async mode it is kept in the task's future until the cycle ends
Escape(i) ==
    /\ task' = [task EXCEPT ![i] = "escaped"]
    /\ cyclePc' = IF asyncMode THEN cyclePc ELSE "raised: storage"
    /\ UNCHANGED pos

\* _run_job returns: in sequential mode the for-loop of run_once moves on
Finish(i) ==
    /\ task' = [task EXCEPT ![i] = "done"]
    /\ pos' = IF asyncMode THEN pos ELSE pos + 1
    /\ UNCHANGED cyclePc

\* names resolved as the tasks are created: the jobs ahead of an unresolved name
\* have their tasks when the error is raised
Launch_ResolvesLazily ==
    /\ cyclePc = "launch"
    /\ LET bad == { n \in 1..Len(ready) : jobs[ready[n]].name \notin JOB_REGISTRY }
       IN  /\ cyclePc' = IF bad = {} THEN "gather" ELSE "raised: unknown job"
           /\ task' = [i \in 1..Len(jobs) |->
                         IF \E n \in 1..Len(ready) :
                               ready[n] = i /\ \A m \in bad : n < m
                           THEN "start" ELSE "none"]
    /\ UNCHANGED <<schedVars, upsertVars, asyncMode, cli, cycle, pos, local, perf, invoked>>

\* _run_all_jobs_async, lines 266-270: every due job's name is resolved, in order,
\* before any task exists; then all tasks are started by gather
Launch ==
    /\ cyclePc = "launch"
    /\ IF \E n \in 1..Len(ready) : jobs[ready[n]].name \notin JOB_REGISTRY
         THEN /\ cyclePc' = "raised: unknown job"
              /\ UNCHANGED task
         ELSE /\ cyclePc' = "gather"
              /\ task' = [i \in 1..Len(jobs) |->
                            IF \E n \in 1..Len(ready) : ready[n] = i THEN "start" ELSE "none"]
    /\ UNCHANGED <<schedVars, upsertVars, asyncMode, cli, cycle, pos, local, perf, invoked>>

\* an unresolved name handled like a failed job: an error event and on to the next
Dispatch_LogsUnknown ==
    /\ cyclePc = "loop"
    /\ pos <= Len(ready)
    /\ task[ready[pos]] = "none"
    /\ IF jobs[ready[pos]].name \notin JOB_REGISTRY
         THEN /\ Logged(ErrorEvent(jobs[ready[pos]], "Unknown job", 0))
              /\ Finish(ready[pos])
         ELSE /\ task' = [task EXCEPT ![ready[pos]] = "start"]
              /\ UNCHANGED <<cyclePc, pos, history, committed>>
    /\ UNCHANGED <<schedVars, tbl, txnFailed, lock, clock, threadVars, ghostVars,
                   asyncMode, cli, cycle, local, perf, invoked>>

\* the for-loop not waiting for _run_job: any due job not yet started is dispatched
Dispatch_AnyOrder ==
    /\ cyclePc = "loop"
    /\ \E n \in 1..Len(ready) :
          /\ task[ready[n]] = "none"
          /\ IF jobs[ready[n]].name \notin JOB_REGISTRY
               THEN /\ cyclePc' = "raised: unknown job"
                    /\ UNCHANGED task
               ELSE /\ task' = [task EXCEPT ![ready[n]] = "start"]
                    /\ UNCHANGED cyclePc
    /\ UNCHANGED <<schedVars, upsertVars, asyncMode, cli, cycle, pos, local, perf, invoked>>

\* run_once, lines 283-285: the next job of the for-loop is resolved and _run_job is
\* called with it
Dispatch ==
    /\ cyclePc = "loop"
    /\ pos <= Len(ready)
    /\ task[ready[pos]] = "none"
    /\ IF jobs[ready[pos]].name \notin JOB_REGISTRY
         THEN /\ cyclePc' = "raised: unknown job"
              /\ UNCHANGED task
         ELSE /\ task' = [task EXCEPT ![ready[pos]] = "start"]
              /\ UNCHANGED cyclePc
    /\ UNCHANGED <<schedVars, upsertVars, asyncMode, cli, cycle, pos, local, perf, invoked>>

\* _run_job, lines 216-224: start = time.perf_counter(); log_history(job_start), which
\* is outside the try block
JobStart(i) ==
    /\ cyclePc \in {"loop", "gather"}
    /\ task[i] = "start"
    /\ local' = [local EXCEPT ![i].start = perf]
    /\ IF txnFailed
         THEN /\ Escape(i)
              /\ UNCHANGED <<history, committed>>
         ELSE /\ Logged(StartEvent(jobs[i]))
              /\ task' = [task EXCEPT ![i] = "call"]
              /\ UNCHANGED <<cyclePc, pos>>
    /\ UNCHANGED <<schedVars, tbl, txnFailed, lock, clock, threadVars, ghostVars,
                   asyncMode, cli, cycle, perf, invoked>>

\* line 226: result = job_callable(manager=self, **args).  Time passes; the callable
\* returns `result` or raises; `fails`: one of its storage statements failed
JobCall(i, result, raises, fails) ==
    /\ cyclePc \in {"loop", "gather"}
    /\ task[i] = "call"
    /\ invoked' = [invoked EXCEPT ![i] = @ + 1]
    /\ perf' = perf + 1
    /\ txnFailed' = (txnFailed \/ fails)
    /\ IF raises
         THEN /\ task' = [task EXCEPT ![i] = "raising"]
              /\ local' = [local EXCEPT ![i].error =
                                           IF fails THEN "storage error" ELSE "job error"]
         ELSE /\ task' = [task EXCEPT ![i] = "returned"]
              /\ local' = [local EXCEPT ![i].result = result]
    /\ UNCHANGED <<schedVars, tbl, committed, history, lock, clock, threadVars, ghostVars,
                   asyncMode, cli, cyclePc, cycle, pos>>

\* lines 227-238: duration_ms, row_count, log_history(job_end) - inside the try block:
\* when log_history raises, the except block is entered
JobEnd(i) ==
    /\ cyclePc \in {"loop", "gather"}
    /\ task[i] = "returned"
    /\ IF DumpsRaises(local[i].result)
         THEN /\ task' = [task EXCEPT ![i] = "raising"]
              /\ local' = [local EXCEPT ![i].error = "not JSON serializable"]
              /\ UNCHANGED <<history, committed, cyclePc, pos>>
         ELSE IF txnFailed
         THEN /\ task' = [task EXCEPT ![i] = "raising"]
              /\ local' = [local EXCEPT ![i].error = "current transaction is aborted"]
              /\ UNCHANGED <<history, committed, cyclePc, pos>>
         ELSE /\ Logged(EndEvent(jobs[i], local[i].result, perf - local[i].start))
              /\ Finish(i)
              /\ UNCHANGED local
    /\ UNCHANGED <<schedVars, tbl, txnFailed, lock, clock, threadVars, ghostVars,
                   asyncMode, cli, cycle, perf, invoked>>

\* a failed job called once more after its error event is written
JobError_Retry(i) ==
    /\ cyclePc \in {"loop", "gather"}
    /\ task[i] = "raising"
    /\ IF txnFailed
         THEN /\ Escape(i)
              /\ UNCHANGED <<history, committed>>
         ELSE /\ Logged(ErrorEvent(jobs[i], local[i].error, perf - local[i].start))
              /\ IF invoked[i] < 2
                   THEN task' = [task EXCEPT ![i] = "call"] /\ UNCHANGED <<cyclePc, pos>>
                   ELSE Finish(i)
    /\ UNCHANGED <<schedVars, tbl, txnFailed, lock, clock, threadVars, ghostVars,
                   asyncMode, cli, cycle, local, perf, invoked>>

\* lines 239-250: except Exception: duration_ms, log_history(job_error); an exception
\* of this log_history leaves _run_job
JobError(i) ==
    /\ cyclePc \in {"loop", "gather"}
    /\ task[i] = "raising"
    /\ IF txnFailed
         THEN /\ Escape(i)
              /\ UNCHANGED <<history, committed>>
         ELSE /\ Logged(ErrorEvent(jobs[i], local[i].error, perf - local[i].start))
              /\ Finish(i)
    /\ UNCHANGED <<schedVars, tbl, txnFailed, lock, clock, threadVars, ghostVars,
                   asyncMode, cli, cycle, local, perf, invoked>>

\* gather taken to be over as soon as one task is
Return_FirstDone ==
    /\ \/ cyclePc = "loop" /\ pos > Len(ready)
       \/ cyclePc = "gather" /\ \E i \in 1..Len(jobs) : task[i] \in {"done", "escaped"}
    /\ cyclePc' = IF \E i \in 1..Len(jobs) : task[i] = "escaped" THEN "raised: storage"
                  ELSE "idle"
    /\ UNCHANGED <<schedVars, upsertVars, asyncMode, cli, cycle, pos, task, local, perf, invoked>>

\* run_once returns: the for-loop is through (line 283), or asyncio.run returns after
\* gather and the shutdown of the executor - raising the exception of a task, if any
Return ==
    /\ \/ cyclePc = "loop" /\ pos > Len(ready)
       \/ cyclePc = "gather" /\ \A i \in 1..Len(jobs) : task[i] \in {"none", "done", "escaped"}
    /\ cyclePc' = IF \E i \in 1..Len(jobs) : task[i] = "escaped" THEN "raised: storage"
                  ELSE "idle"
    /\ UNCHANGED <<schedVars, upsertVars, asyncMode, cli, cycle, pos, task, local, perf, invoked>>

NextOrch ==
    \/ \E instant \in CycleTimes : RunOnce(instant)
    \/ Launch
    \/ Dispatch
    \/ \E i \in 1..Len(jobs) : JobStart(i)
    \/ \E i \in 1..Len(jobs), result \in Results, fails \in BOOLEAN :
          JobCall(i, result, FALSE, fails)
    \/ \E i \in 1..Len(jobs), fails \in BOOLEAN : JobCall(i, NoResult, TRUE, fails)
    \/ \E i \in 1..Len(jobs) : JobEnd(i)
    \/ \E i \in 1..Len(jobs) : JobError(i)
    \/ Return

SpecOrch ==
    InitOrch /\ [][NextOrch]_vars

\* ------------------------------------------------------------- run_forever
\* While run_forever loops, instants, ledger rows and cycle numbers grow without
\* bound.  The loop's state is kept finite by three reductions, none of which the
\* code can observe: instants are kept modulo one hour (every policy that is
\* evaluated more than once in LoopFiles is a function of the time of the hour and
\* of differences of instants), the ledger keeps the rows of the running cycle
\* only, and cycles after the first are not told apart.

\* the schedule documents the loop is run with: one job with the default schedule;
\* an Interval job and a Cron job for every full hour; and the document with an
\* unregistered name, whose first cycle is its last
LoopFiles ==
    { SingleJobFile, CronFile([type |-> "cron", expression |-> "0 * * * *"]), UnknownNameFile }

\* seconds from one reading of the clock by run_once to the next: the sleep of
\* poll_interval seconds and whatever the jobs took
Elapsed ==
    {150, 1800}

\* cycles that are told apart
MaxCycle ==
    2

\* what the callables of the loop return
LoopResults ==
    { [type |-> "dict", items |-> [row_count |-> 3, table |-> "region_codes"]],
      [type |-> "dict", items |-> [finished_at |-> NotJson]] }

\* a process started with one of the loop's documents, about to enter run_forever
InitLoop ==
    /\ InitDB
    /\ hasCroniter \in BOOLEAN
    /\ source \in LoopFiles
    /\ jobs = from_file(source)
    /\ pollNow = LoadTime
    /\ ready = <<>>
    /\ dueRaised = FALSE
    /\ claimedAt = [i \in 1..Len(jobs) |-> -1]
    /\ lastCall = NoCall
    /\ asyncMode \in BOOLEAN
    /\ cli = NoCli
    /\ cyclePc = "idle"
    /\ cycle = 0
    /\ pos = 1
    /\ task = [i \in 1..Len(jobs) |-> "none"]
    /\ local = [i \in 1..Len(jobs) |-> NoLocal]
    /\ perf = 0
    /\ invoked = [i \in 1..Len(jobs) |-> 0]

\* the while-loop left when a poll finds nothing due
LoopPoll_StopsWhenIdle(elapsed) ==
    /\ cyclePc = "idle"
    /\ jobs # <<>>
    /\ LET instant == pollNow + elapsed
           list    == ReadyFrom(1, instant)
           marked  == { list[n] : n \in 1..MarkedPrefix(list) }
           raised  == MarkedPrefix(list) < Len(list)
           shift   == IF instant >= SecondsPerHour THEN SecondsPerHour ELSE 0
       IN  /\ jobs' = [i \in 1..Len(jobs) |->
                         [jobs[i] EXCEPT !.next_run =
                             (IF i \in marked THEN compute_next_run(jobs[i].schedule, instant)
                                              ELSE @) - shift]]
           /\ dueRaised' = raised
           /\ ready' = IF raised THEN <<>> ELSE list
           /\ claimedAt' = [i \in 1..Len(jobs) |->
                              IF ~raised /\ i \in marked THEN instant - shift
                              ELSE IF claimedAt[i] < 0 THEN claimedAt[i]
                              ELSE claimedAt[i] - shift]
           /\ pollNow' = instant - shift
    /\ cycle' = IF dueRaised' \/ ready' = <<>> \/ cycle = MaxCycle THEN cycle ELSE cycle + 1
    /\ cyclePc' = IF dueRaised' THEN "raised: schedule"
                  ELSE IF ready' = <<>> THEN "stopped"
                  ELSE IF asyncMode THEN "launch" ELSE "loop"
    /\ history' = <<>>
    /\ perf' = 0
    /\ pos' = 1
    /\ task' = [i \in 1..Len(jobs) |-> "none"]
    /\ local' = [i \in 1..Len(jobs) |-> NoLocal]
    /\ invoked' = [i \in 1..Len(jobs) |-> 0]
    /\ UNCHANGED <<hasCroniter, source, lastCall, tbl, committed, txnFailed, lock, clock,
                   threadVars, ghostVars, asyncMode, cli>>

\* run_forever, lines 287-293: one turn of `while True` - time.sleep(poll_interval)
\* has returned and run_once reads the clock and polls the schedule (lines 273-282)
LoopPoll(elapsed) ==
    /\ cyclePc = "idle"
    /\ jobs # <<>>
    /\ LET instant == pollNow + elapsed
           list    == ReadyFrom(1, instant)
           marked  == { list[n] : n \in 1..MarkedPrefix(list) }
           raised  == MarkedPrefix(list) < Len(list)
           shift   == IF instant >= SecondsPerHour THEN SecondsPerHour ELSE 0
       IN  /\ jobs' = [i \in 1..Len(jobs) |->
                         [jobs[i] EXCEPT !.next_run =
                             (IF i \in marked THEN compute_next_run(jobs[i].schedule, instant)
                                              ELSE @) - shift]]
           /\ dueRaised' = raised
           /\ ready' = IF raised THEN <<>> ELSE list
           /\ claimedAt' = [i \in 1..Len(jobs) |->
                              IF ~raised /\ i \in marked THEN instant - shift
                              ELSE IF claimedAt[i] < 0 THEN claimedAt[i]
                              ELSE claimedAt[i] - shift]
           /\ pollNow' = instant - shift
    /\ cycle' = IF dueRaised' \/ ready' = <<>> \/ cycle = MaxCycle THEN cycle ELSE cycle + 1
    /\ cyclePc' = IF dueRaised' THEN "raised: schedule"
                  ELSE IF ready' = <<>> THEN "idle"
                  ELSE IF asyncMode THEN "launch" ELSE "loop"
    /\ history' = <<>>
    /\ perf' = 0
    /\ pos' = 1
    /\ task' = [i \in 1..Len(jobs) |-> "none"]
    /\ local' = [i \in 1..Len(jobs) |-> NoLocal]
    /\ invoked' = [i \in 1..Len(jobs) |-> 0]
    /\ UNCHANGED <<hasCroniter, source, lastCall, tbl, committed, txnFailed, lock, clock,
                   threadVars, ghostVars, asyncMode, cli>>

NextLoop ==
    \/ \E elapsed \in Elapsed : LoopPoll(elapsed)
    \/ Launch
    \/ Dispatch
    \/ \E i \in 1..Len(jobs) : JobStart(i)
    \/ \E i \in 1..Len(jobs), result \in LoopResults, fails \in BOOLEAN :
          JobCall(i, result, FALSE, fails)
    \/ \E i \in 1..Len(jobs), fails \in BOOLEAN : JobCall(i, NoResult, TRUE, fails)
    \/ \E i \in 1..Len(jobs) : JobEnd(i)
    \/ \E i \in 1..Len(jobs) : JobError(i)
    \/ Return

\* the process keeps running: sleep returns, the clock moves on, and a callable that
\* has been invoked returns or raises
SpecLoop ==
    InitLoop /\ [][NextLoop]_vars /\ WF_vars(NextLoop)

\* ----------------------------------------------------------- run_from_cli
\* the process has parsed its arguments (--dry-run and --async either way); no manager
\* exists yet and no schedule is loaded
InitCli ==
    /\ InitDB
    /\ hasCroniter \in BOOLEAN
    /\ source \in OrchFiles
    /\ jobs = <<>>
    /\ pollNow = LoadTime
    /\ ready = <<>>
    /\ dueRaised = FALSE
    /\ claimedAt = <<>>
    /\ lastCall = NoCall
    /\ asyncMode \in BOOLEAN
    /\ cli \in { [pc |-> "start", dry_run |-> flag, connected |-> FALSE, printed |-> <<>>] :
                  flag \in BOOLEAN }
    /\ cyclePc = "idle"
    /\ cycle = 0
    /\ pos = 1
    /\ task = <<>>
    /\ local = <<>>
    /\ perf = 0
    /\ invoked = <<>>

\* lines 357-362 and 96-105: IngestionManager(..., skip_db=args.dry_run): a DBAdapter
\* is created, and connects, only if skip_db is false
CliConstruct ==
    /\ cli.pc = "start"
    /\ cli' = [cli EXCEPT !.pc = "constructed", !.connected = ~cli.dry_run]
    /\ UNCHANGED <<schedVars, upsertVars, asyncMode, cyclePc, cycle, pos, task, local, perf,
                   invoked>>

\* lines 364-365: manager.load_schedule(schedule_path)
CliLoadSchedule ==
    /\ cli.pc = "constructed"
    /\ cli' = [cli EXCEPT !.pc = "loaded"]
    /\ jobs' = from_file(source)
    /\ claimedAt' = [i \in 1..Len(jobs') |-> -1]
    /\ task' = [i \in 1..Len(jobs') |-> "none"]
    /\ local' = [i \in 1..Len(jobs') |-> NoLocal]
    /\ invoked' = [i \in 1..Len(jobs') |-> 0]
    /\ UNCHANGED <<hasCroniter, pollNow, ready, dueRaised, source, lastCall, upsertVars,
                   asyncMode, cyclePc, cycle, pos, perf>>

\* the dry-run flag not looked at: the process goes on to its loop
CliMode_RunsAnyway ==
    /\ cli.pc = "loaded"
    /\ cli' = [cli EXCEPT !.pc = "running"]
    /\ UNCHANGED <<schedVars, upsertVars, asyncMode, cyclePc, cycle, pos, task, local, perf,
                   invoked>>

\* lines 367-377: in dry-run mode the jobs are printed and run_from_cli returns;
\* otherwise run_once is called, once (--once) or in the loop of run_forever
CliMode ==
    /\ cli.pc = "loaded"
    /\ cli' = IF cli.dry_run
                THEN [cli EXCEPT !.pc = "exited",
                                 !.printed = [i \in 1..Len(jobs) |-> jobs[i].name]]
                ELSE [cli EXCEPT !.pc = "running"]
    /\ UNCHANGED <<schedVars, upsertVars, asyncMode, cyclePc, cycle, pos, task, local, perf,
                   invoked>>

\* the process from its start: the orchestrator takes steps only once run_from_cli
\* has got to run_once.  With --once the first run_once call is the last one: those
\* behaviours are the ones below with a single call
NextCli ==
    \/ CliConstruct
    \/ CliLoadSchedule
    \/ CliMode
    \/ cli.pc = "running" /\ NextOrch

SpecCli ==
    InitCli /\ [][NextCli]_vars

\* ======================================================================
\* Properties of the temporal upsert engine
\* ======================================================================
KeyIds(table, key) ==
    { i \in 1..Len(table) : table[i].k = key }

CurrentOf(table, key) ==
    { i \in KeyIds(table, key) : table[i].is_current = 1 }

Attrs(r) ==
    <<r.a1, r.a2>>

\* thread t is about to commit and return `inserted`
AtReturn(t) ==
    pc[t] = "loop" /\ todo[t] = 0

\* C1: every natural key has at most one row with is_current = 1, in what the
\* connection sees and in what is durable, whatever the threads and batches do.
C1_AtMostOneCurrent ==
    \A key \in Keys :
        /\ Cardinality(CurrentOf(tbl, key)) <= 1
        /\ Cardinality(CurrentOf(committed, key)) <= 1

\* the second version of a key, written by one thread after its call had overlapped
\* with the other thread's call that wrote the first
C1_Witness ==
    \E t \in Threads, key \in Keys :
        /\ overlapped /\ pc[t] = "loop" /\ base[t] = 1 /\ inserted[t] = 1
        /\ Cardinality(KeyIds(tbl, key)) = 2
        /\ Cardinality(CurrentOf(tbl, key)) = 1

\* row i comes before row j when a key's rows are ordered by valid_from, then id
Before(table, i, j) ==
    \/ table[i].valid_from < table[j].valid_from
    \/ table[i].valid_from = table[j].valid_from /\ i < j

ChainOk(table, key) ==
    \A i \in KeyIds(table, key) :
        LET later == { j \in KeyIds(table, key) : Before(table, i, j) }
        IN  IF later = {}
              THEN table[i].is_current = 1 /\ table[i].valid_to = Sentinel
              ELSE LET nxt == CHOOSE j \in later : \A m \in later \ {j} : Before(table, j, m)
                   IN  table[i].is_current = 0 /\ table[i].valid_to = table[nxt].valid_from

\* C2: as long as the upsert_scd2 calls have not overlapped (the clock readings
\* never decrease), every key's rows, ordered by valid_from (then id), form a
\* chain: a row's valid_to is the next row's valid_from, the last row alone is
\* current and ends at the sentinel.
C2_ValidityChain ==
    ~overlapped => \A key \in Keys : ChainOk(tbl, key) /\ ChainOk(committed, key)

\* a key with two versions written at different clock readings, calls in order
C2_Witness ==
    /\ ~overlapped
    /\ \E key \in Keys, i, j \in 1..Len(committed) :
          /\ i < j /\ committed[i].k = key /\ committed[j].k = key
          /\ committed[i].valid_from < committed[j].valid_from

\* the step in which thread t's loop has dealt with a record without raising
Applied(t) ==
    pc[t] = "loop" /\ todo'[t] = todo[t] - 1

\* C3: a call that brings a record for key K, whose only row so far is a current
\* row written by an earlier call with other attribute values, leaves exactly two
\* rows for K - the old one closed at the call's timestamp and a new current one
\* valid from that timestamp to the sentinel.
C3_Versioning ==
    [][ \A t \in Threads, key \in Keys, i \in 1..Len(tbl) :
          ( /\ Applied(t)
            /\ row'[t].k = key
            /\ KeyIds(tbl, key) = {i}
            /\ i <= base[t]
            /\ tbl[i].is_current = 1
            /\ Attrs(tbl[i]) # Attrs(row'[t]) )
          => /\ KeyIds(tbl', key) = {i, Len(tbl')}
             /\ Len(tbl') # i
             /\ tbl'[i].is_current = 0
             /\ tbl'[i].valid_to = now[t]
             /\ tbl'[Len(tbl')].is_current = 1
             /\ tbl'[Len(tbl')].valid_to = Sentinel
             /\ tbl'[Len(tbl')].valid_from = now[t] ]_vars

\* C4: a record whose attribute values are those of its key's current row is a
\* no-op: the table is left as it is (no insert, no close, valid_from and valid_to
\* of the current row untouched) and the record is not counted.
C4_Idempotence ==
    [][ \A t \in Threads :
          ( /\ Applied(t)
            /\ CurrentOf(tbl, row'[t].k) # {}
            /\ \A i \in CurrentOf(tbl, row'[t].k) : Attrs(tbl[i]) = Attrs(row'[t]) )
          => /\ tbl' = tbl
             /\ committed' = committed
             /\ inserted'[t] = inserted[t] ]_vars

\* the loop has dealt with a record equal to its key's current row and has
\* inserted nothing
C4_Witness ==
    \E t \in Threads :
        /\ pc[t] = "loop" /\ row[t] # NoRow
        /\ inserted[t] = 0 /\ Len(tbl) = base[t]
        /\ \E i \in CurrentOf(tbl, row[t].k) : Attrs(tbl[i]) = Attrs(row[t])

\* the natural keys whose current version the call of thread t has created or
\* replaced: the keys of the rows inserted since it took the lock
ChangedKeys(t) ==
    { tbl[i].k : i \in (base[t] + 1)..Len(tbl) }

\* C5 as stated: the value returned is the number of distinct natural keys the
\* call has changed.
C5_ReturnsChangedKeys ==
    \A t \in Threads : AtReturn(t) => inserted[t] = Cardinality(ChangedKeys(t))

\* C5 as amended: the value returned is the number of versions the call created;
\* it is never less than the number of distinct natural keys changed and equals
\* it when the call has changed no key more than once.
C5_ReturnsVersionsCreated ==
    \A t \in Threads :
        AtReturn(t) =>
          /\ inserted[t] >= Cardinality(ChangedKeys(t))
          /\ ( (\A i, j \in (base[t] + 1)..Len(tbl) : tbl[i].k = tbl[j].k => i = j)
               => inserted[t] = Cardinality(ChangedKeys(t)) )

\* a call about to return that has changed two different keys
C5_Witness ==
    \E t \in Threads : AtReturn(t) /\ Cardinality(ChangedKeys(t)) = 2

\* C6: the value returned is the number of rows the call has added to the table;
\* a close adds nothing to it.
C6_ReturnsInsertedRows ==
    \A t \in Threads : pc[t] = "loop" => Len(tbl) = base[t] + inserted[t]

\* a call about to return 1 after closing a row of an earlier call and inserting
\* its successor
C6_Witness ==
    \E t \in Threads, i \in 1..Len(committed) :
        /\ AtReturn(t) /\ inserted[t] = 1
        /\ i <= base[t]
        /\ committed[i].is_current = 1 /\ tbl[i].is_current = 0

\* C7: no row inserted by a call that raised is ever durable.
C7_AllOrNothing ==
    \A i \in failedIds : i > Len(committed)

Preserved(old, new) ==
    /\ Len(new) >= Len(old)
    /\ \A i \in 1..Len(old) :
          /\ new[i].id = old[i].id /\ new[i].k = old[i].k
          /\ Attrs(new[i]) = Attrs(old[i])
          /\ new[i].valid_from = old[i].valid_from
          /\ new[i].row_hash = old[i].row_hash
          /\ (new[i] # old[i] => old[i].is_current = 1 /\ new[i].is_current = 0)
          /\ (old[i].is_current = 0 => new[i] = old[i])

\* C8: no step removes a row or changes the key, attribute, valid_from or row_hash
\* columns of a row; a row changes only by being closed, and a closed row never
\* changes again.
C8_HistoryNeverLost ==
    [][Preserved(tbl, tbl') /\ Preserved(committed, committed')]_vars

\* a closed row and its successor are durable
C8_Witness ==
    \E i \in 1..Len(committed) : committed[i].is_current = 0 /\ Len(committed) > i

\* ======================================================================
\* Properties of the schedule engine
\* ======================================================================
\* job i is in the list the latest due_jobs call returned
Returned(i) ==
    \E n \in 1..Len(ready) : ready[n] = i

IsInterval300(job) ==
    Get(job.schedule, "type", "interval") = "interval"
      /\ Get(job.schedule, "seconds", 300) = 300

\* C9: a due_jobs call at now = T that returns an Interval{300} job sets its
\* next_run to T + 300; while T is the job's latest claim, a call at a time in
\* (T, T + 299] does not return it and a call at T + 300 or later does.
C9_IntervalBoundary ==
    [][ \A i \in 1..Len(jobs) :
          IsInterval300(jobs[i]) =>
            /\ (\E n \in 1..Len(ready') : ready'[n] = i)
                 => jobs'[i].next_run = pollNow' + 300
            /\ claimedAt[i] >= 0 =>
                 /\ (pollNow' > claimedAt[i] /\ pollNow' <= claimedAt[i] + 299)
                      => ~(\E n \in 1..Len(ready') : ready'[n] = i)
                 /\ pollNow' >= claimedAt[i] + 300
                      => (\E n \in 1..Len(ready') : ready'[n] = i) ]_vars

\* the job was claimed at T and the call at T + 299 has not returned it
C9_Witness ==
    \E i \in 1..Len(jobs) :
        /\ IsInterval300(jobs[i])
        /\ claimedAt[i] >= 0
        /\ pollNow = claimedAt[i] + 299
        /\ ~Returned(i)

\* the configured times of day, in seconds after midnight
DailyAt(value) ==
    CASE value = "00:00" -> 0
      [] value = "02:00" -> 2 * 3600
      [] value = "23:59" -> 23 * 3600 + 59 * 60

\* C10: the next_run a Daily job got when it was claimed at now = T is today's date
\* at the time of day if that instant is after T, else tomorrow's date at the time
\* of day (an instant equal to T counts as passed); it is after T, at most 24 hours
\* after T, and has the configured time of day.
C10_Daily ==
    \A i \in 1..Len(jobs) :
        (Get(jobs[i].schedule, "type", "interval") = "daily" /\ claimedAt[i] >= 0) =>
          LET T      == claimedAt[i]
              at     == DailyAt(jobs[i].schedule["time"])
              today  == (T \div 86400) * 86400 + at
              result == jobs[i].next_run
          IN  /\ result = (IF today > T THEN today ELSE today + 86400)
              /\ result > T
              /\ result <= T + 86400
              /\ result % 86400 = at

\* a Daily job claimed at exactly its time of day, rolled to the next day
C10_Witness ==
    \E i \in 1..Len(jobs) :
        /\ Get(jobs[i].schedule, "type", "interval") = "daily"
        /\ claimedAt[i] >= 0
        /\ claimedAt[i] % 86400 = DailyAt(jobs[i].schedule["time"])
        /\ jobs[i].next_run = claimedAt[i] + 86400

\* C13: a job that the latest due_jobs call has returned is not returned by the
\* next call when that call is made at the same now or at an instant before the
\* job's newly computed next_run.
C13_Claiming ==
    [][ \A i \in 1..Len(jobs) :
          ( /\ Returned(i)
            /\ (pollNow' = pollNow \/ pollNow' < jobs[i].next_run) )
          => ~(\E n \in 1..Len(ready') : ready'[n] = i) ]_vars

\* C14: a due_jobs call recomputes next_run for exactly the jobs it hands to its
\* caller: a job it returns has the next_run computed from the call's now, and no
\* job's next_run is changed by a call that does not return it - a call that raises
\* included.
C14_MarkedOncePerDispatch ==
    [][ \A i \in 1..Len(jobs) :
          /\ (\E n \in 1..Len(ready') : ready'[n] = i)
               => jobs'[i].next_run = compute_next_run(jobs[i].schedule, pollNow')
          /\ jobs'[i].next_run # jobs[i].next_run
               => (\E n \in 1..Len(ready') : ready'[n] = i) ]_vars

\* the list holds the positions of exactly the jobs due at `instant`, in declaration
\* order
DueInOrder(list, instant) ==
    /\ \A n \in 1..Len(list) : list[n] \in 1..Len(jobs) /\ instant >= jobs[list[n]].next_run
    /\ \A i \in 1..Len(jobs) :
          instant >= jobs[i].next_run => \E n \in 1..Len(list) : list[n] = i
    /\ \A m, n \in 1..Len(list) : m < n => list[m] < list[n]

\* C15: what a due_jobs(now) call returns is exactly the loaded jobs with
\* now >= next_run, in declaration order whatever their depends_on says; and every
\* call leaves the next_run of every job it does not return as it was.
C15_DueJobsResult ==
    [][ /\ ~dueRaised' => DueInOrder(ready', pollNow')
        /\ \A i \in 1..Len(jobs) :
              ~(\E n \in 1..Len(ready') : ready'[n] = i)
                 => jobs'[i].next_run = jobs[i].next_run ]_vars

\* the positions of the entries of the schedule document that are not disabled
EnabledAt(entries) ==
    { e \in 1..Len(entries) : "enabled" \notin DOMAIN entries[e] \/ entries[e].enabled }

\* C16: the loaded jobs are the entries that are not disabled, one job per entry in
\* the entries' order; a disabled entry is no job, whether or not it has a name or a
\* usable schedule, and every job a due_jobs call returns is one of the loaded jobs.
C16_DisabledDropped ==
    /\ Len(jobs) = Cardinality(EnabledAt(source))
    /\ \A e \in EnabledAt(source) :
          LET n == Cardinality({ d \in EnabledAt(source) : d <= e })
          IN  jobs[n].name = source[e].name
    /\ \A e \in (1..Len(source)) \ EnabledAt(source) :
          "name" \in DOMAIN source[e] => \A i \in 1..Len(jobs) : jobs[i].name # source[e].name
    /\ \A n \in 1..Len(ready) : ready[n] \in 1..Len(jobs)

\* a document with a disabled entry that has no name has been loaded, and a due_jobs
\* call has returned all of its jobs
C16_Witness ==
    /\ \E e \in 1..Len(source) : ~Get(source[e], "enabled", TRUE) /\ "name" \notin DOMAIN source[e]
    /\ Len(jobs) = 1
    /\ ready = <<1>>

\* no due_jobs call has been made since the schedule was loaded
Fresh ==
    ~dueRaised /\ \A i \in 1..Len(jobs) : claimedAt[i] = -1

\* all the loaded jobs, in declaration order
AllJobs ==
    [i \in 1..Len(jobs) |-> i]

\* C17 as stated: the first due_jobs(now) call after the load returns every loaded
\* job, whatever its recurrence policy.
C17_FirstPollReturnsAll ==
    [][ Fresh => ready' = AllJobs ]_vars

\* C17 as amended: at the first due_jobs(now) call after the load every loaded job
\* is due, whatever its policy and time of day; the call returns all of them, unless
\* computing the next run of one of them raises, and then it raises and returns
\* none.
C17_FirstPollAllDue ==
    [][ Fresh =>
          /\ \A i \in 1..Len(jobs) : pollNow' >= jobs[i].next_run
          /\ ~dueRaised' => ready' = AllJobs
          /\ dueRaised' <=> \E i \in 1..Len(jobs) : ComputeRaises(jobs[i].schedule) ]_vars

\* a Tuesday 02:00 job returned by the first poll, one second after a load on
\* Monday 00:00:00
C17_Witness ==
    \E i \in 1..Len(jobs) :
        /\ jobs[i].schedule = [type |-> "weekly", weekday |-> "tuesday", time |-> "02:00"]
        /\ Returned(i)
        /\ pollNow = 1
        /\ jobs[i].next_run = 86400 + 2 * 3600

\* ======================================================================
\* Properties of the ScheduledJob methods
\* ======================================================================
\* the weekdays in calendar order, Monday first
WeekOrder ==
    <<"monday", "tuesday", "wednesday", "thursday", "friday", "saturday", "sunday">>

\* 0 for Monday ... 6 for Sunday
WeekdayIndex(name) ==
    (CHOOSE n \in 1..7 : WeekOrder[n] = name) - 1

\* the configured weekly times of day, in seconds after midnight
WeeklyAt(value) ==
    CASE value = "00:00" -> 0
      [] value = "02:00" -> 2 * 3600
      [] value = "09:00" -> 9 * 3600

\* compute_next_run has been called and has returned
Computed ==
    lastCall.now >= 0 /\ ~lastCall.raised

\* C11: for a Weekly job, the next run computed for now = T is the instant at
\* offset (targetWeekday - weekday(T)) mod 7 days from T's date at the time of day,
\* plus 7 days when that instant is <= T; it is the earliest instant strictly after
\* T that is on the target weekday at the time of day, and at most 7 days after T.
C11_Weekly ==
    \A i \in 1..Len(jobs) :
        (Get(jobs[i].schedule, "type", "interval") = "weekly" /\ Computed) =>
          LET T      == lastCall.now
              target == WeekdayIndex(jobs[i].schedule["weekday"])
              at     == WeeklyAt(jobs[i].schedule["time"])
              today  == T \div 86400
              offset == (target - (today % 7)) % 7
              inst   == (today + offset) * 86400 + at
              result == lastCall.result
          IN  /\ result = (IF inst <= T THEN inst + 7 * 86400 ELSE inst)
              /\ result > T
              /\ result <= T + 7 * 86400
              /\ (result \div 86400) % 7 = target
              /\ result % 86400 = at
              /\ \A d \in 0..7 :
                    LET other == (today + d) * 86400 + at
                    IN  (other > T /\ (today + d) % 7 = target) => result <= other

\* the next run of a Monday 09:00 job computed on a Monday at 10:00 is the following
\* Monday at 09:00
C11_Witness ==
    \E i \in 1..Len(jobs) :
        /\ jobs[i].schedule = [type |-> "weekly", weekday |-> "monday", time |-> "09:00"]
        /\ Computed
        /\ lastCall.now = 10 * 3600
        /\ lastCall.result = 7 * 86400 + 9 * 3600

EventsOf(name, types) ==
    { e \in 1..Len(history) : history[e].job_name = name /\ history[e].event_type \in types }

\* job i has no registered callable
Unresolved(i) ==
    jobs[i].name \notin JOB_REGISTRY

\* C18: a job whose name is not in the registry never gets a ledger event and never
\* has a callable invoked; once a poll has returned it, run_once does not return
\* normally from that cycle and starts no job in async mode: it ends raising the
\* unknown-job error - unless, in sequential mode, the run of a job ahead of it has
\* already ended run_once with its own exception.
C18_UnknownJob ==
    \A i \in 1..Len(jobs) :
        Unresolved(i) =>
          /\ EventsOf(jobs[i].name, {"job_start", "job_end", "job_error"}) = {}
          /\ invoked[i] = 0
          /\ task[i] = "none"
          /\ Returned(i) =>
                /\ cyclePc \in {"launch", "loop", "raised: unknown job", "raised: storage"}
                /\ cyclePc = "raised: storage" =>
                      /\ ~asyncMode
                      /\ \E m, n \in 1..Len(ready) :
                            m < n /\ ready[n] = i /\ task[ready[m]] = "escaped"

\* sequential mode: the job ahead of the unknown one has run and succeeded, run_once
\* has raised at the unknown name, and the job after it was never started
C18_Witness ==
    /\ ~asyncMode
    /\ cyclePc = "raised: unknown job"
    /\ \E i \in 1..Len(jobs) :
          /\ Unresolved(i) /\ Returned(i)
          /\ i > 1 /\ task[i - 1] = "done"
          /\ EventsOf(jobs[i - 1].name, {"job_end"}) # {}
          /\ i < Len(jobs) /\ task[i + 1] = "none" /\ Returned(i + 1)

\* the ledger rows of the given types that job i's dispatch in the current cycle wrote
CycleEvents(i, types) ==
    { e \in EventsOf(jobs[i].name, types) : history[e].cycle = cycle }

\* the callable of job i has raised in the current cycle
CallableRaised(i) ==
    local[i].error \in {"job error", "storage error"}

\* the _run_job call of job i is over
Over(i) ==
    task[i] \in {"done", "escaped"}

\* C19: when a job's callable has raised, its dispatch leaves exactly one start
\* event and exactly one error event (status failed, duration >= 0, the error's
\* description) and no end event, and the exception does not leave _run_job; the
\* cycle does not end with that exception, and when run_once returns every due job
\* of the cycle has been run once.
C19_FailureContainment ==
    /\ \A i \in 1..Len(jobs) :
          (CallableRaised(i) /\ Over(i)) =>
            /\ task[i] = "done"
            /\ Cardinality(CycleEvents(i, {"job_start"})) = 1
            /\ Cardinality(CycleEvents(i, {"job_error"})) = 1
            /\ CycleEvents(i, {"job_end"}) = {}
            /\ \A e \in CycleEvents(i, {"job_error"}) :
                  /\ history[e].status = "failed"
                  /\ history[e].duration_ms[1] >= 0
                  /\ history[e].details = [error |-> local[i].error]
    /\ (\E i \in 1..Len(jobs) : CallableRaised(i)) =>
          /\ cyclePc # "raised: storage"
          /\ cyclePc = "idle" =>
                \A j \in 1..Len(jobs) : Returned(j) => task[j] = "done" /\ invoked[j] = 1

\* the callable of job i has been invoked in the current cycle and returned normally
CallableReturned(i) ==
    invoked[i] = 1 /\ task[i] # "call" /\ ~CallableRaised(i)

\* C20: when a job's callable has returned normally, its dispatch leaves exactly one
\* start event, carrying the job's args, followed by exactly one end event with
\* status success and no error event; the end event's row_count is the result's
\* row_count when the result is a mapping that has one, and empty otherwise.
C20_SuccessPath ==
    \A i \in 1..Len(jobs) :
        (CallableReturned(i) /\ Over(i)) =>
          /\ task[i] = "done"
          /\ CycleEvents(i, {"job_error"}) = {}
          /\ \E s, e \in 1..Len(history) :
                /\ CycleEvents(i, {"job_start"}) = {s}
                /\ CycleEvents(i, {"job_end"}) = {e}
                /\ s < e
                /\ history[s].details = [args |-> jobs[i].args]
                /\ history[e].status = "success"
                /\ history[e].row_count =
                      IF /\ local[i].result.type = "dict"
                         /\ "row_count" \in DOMAIN local[i].result.items
                        THEN <<local[i].result.items.row_count>>
                        ELSE <<>>

\* a storage statement issued by the callable of job i failed and the callable raised
\* with it
StorageRaised(i) ==
    local[i].error = "storage error"

\* C21: when a storage operation called by a running job has failed and the job's
\* run is over, the orchestrator has caught the error and appended one failed error
\* event for that job, the error has not left run_once - the cycle goes on - and the
\* adapter's connection still takes storage operations.
C21_StorageErrorContained ==
    /\ \A i \in 1..Len(jobs) :
          (StorageRaised(i) /\ Over(i)) =>
            /\ task[i] = "done"
            /\ \E e \in CycleEvents(i, {"job_error"}) : history[e].status = "failed"
            /\ ~txnFailed
    /\ (\E i \in 1..Len(jobs) : StorageRaised(i)) => cyclePc # "raised: storage"

\* job i has been launched in the current cycle
Launched(i) ==
    task[i] # "none"

\* C22: in async mode the due jobs of a cycle are launched together - once one of them
\* is launched, all are - and when run_once has returned, every job the poll returned
\* has finished and its terminal event (end or error) is in the ledger; so none is
\* still running when the next cycle polls.
C22_Barrier ==
    asyncMode =>
      /\ (\E i \in 1..Len(jobs) : Launched(i)) =>
            \A n \in 1..Len(ready) : Launched(ready[n])
      /\ cyclePc = "idle" =>
            \A n \in 1..Len(ready) :
                /\ task[ready[n]] = "done"
                /\ CycleEvents(ready[n], {"job_end", "job_error"}) # {}

\* async mode: run_once has returned from a cycle of two jobs, one of which ended
\* with an end event and the other with an error event
C22_Witness ==
    /\ asyncMode
    /\ cyclePc = "idle"
    /\ Len(ready) >= 2
    /\ \E m, n \in 1..Len(ready) :
          /\ CycleEvents(ready[m], {"job_end"}) # {}
          /\ CycleEvents(ready[n], {"job_error"}) # {}

\* the _run_job call of job i is in progress
Running(i) ==
    task[i] \in {"start", "call", "returned", "raising"}

\* C23: in sequential mode at most one job is running at a time, and the start event
\* of a due job is in the ledger only if the job the poll returned just before it has
\* its terminal event (end or error) there, with a smaller id: the orchestrator's
\* events of different jobs do not interleave and follow the order of the due list.
C23_SequentialOrder ==
    ~asyncMode =>
      /\ \A i, j \in 1..Len(jobs) : (Running(i) /\ Running(j)) => i = j
      /\ \A n \in 2..Len(ready) :
            \A s \in CycleEvents(ready[n], {"job_start"}) :
                /\ task[ready[n - 1]] = "done"
                /\ \E t \in CycleEvents(ready[n - 1], {"job_end", "job_error"}) : t < s
                /\ \A e \in CycleEvents(ready[n - 1], {"job_start", "job_end", "job_error"}) :
                      e < s

\* sequential mode: the second job of the due list has written its start event, after
\* the first job's run ended with an error event
C23_Witness ==
    /\ ~asyncMode
    /\ Len(ready) >= 2
    /\ CycleEvents(ready[2], {"job_start"}) # {}
    /\ CycleEvents(ready[1], {"job_error"}) # {}
    /\ Running(ready[2])

\* C24: within one run_once cycle no job fires twice: the poll returns each job at
\* most once, each job's callable is invoked at most once and each job gets at most
\* one start event, in sequential and in async mode, however many periods have gone
\* by since the job's previous run.
C24_NoDoubleFiring ==
    /\ \A m, n \in 1..Len(ready) : ready[m] = ready[n] => m = n
    /\ \A i \in 1..Len(jobs) :
          /\ invoked[i] <= 1
          /\ Cardinality(CycleEvents(i, {"job_start"})) <= 1

\* an Interval{300} job that ran in an earlier cycle (polled at 300 at the latest) has
\* been run in the cycle polled a day after the load, once
C24_Witness ==
    /\ cycle >= 2
    /\ pollNow = Day
    /\ \E i \in 1..Len(jobs) :
          /\ IsInterval300(jobs[i])
          /\ task[i] = "done"
          /\ invoked[i] = 1
          /\ \E e \in EventsOf(jobs[i].name, {"job_start"}) : history[e].cycle < cycle

\* the positions of the ledger, as it is after the step, whose rows the latest
\* fetch_history call returned
Fetched ==
    { e \in 1..Len(history') : \E n \in 1..Len(ledgerCall'.rows) : ledgerCall'.rows[n] = history'[e] }

\* C25: no step modifies or removes an event of the ledger; a log_history call adds
\* exactly one event, at the end, and returns its id, which is greater than every
\* earlier id; fetch_history(limit) returns min(limit, n) events, those with the
\* largest ids, the most recent one first.
C25_AppendOnly ==
    [][ /\ Len(history') >= Len(history)
        /\ \A e \in 1..Len(history) : history'[e] = history[e]
        /\ history' # history =>
              /\ Len(history') = Len(history) + 1
              /\ ledgerCall'.op = "log_history"
              /\ ledgerCall'.id = history'[Len(history')].id
              /\ \A e \in 1..Len(history) : history[e].id < ledgerCall'.id
        /\ ledgerCall'.op = "fetch_history" =>
              /\ history' = history
              /\ Len(ledgerCall'.rows) =
                    (IF ledgerCall'.limit < Len(history) THEN ledgerCall'.limit ELSE Len(history))
              /\ Cardinality(Fetched) = Len(ledgerCall'.rows)
              /\ \A e \in Fetched, other \in 1..Len(history) \ Fetched :
                    history[other].id < history[e].id
              /\ \A n \in 1..Len(ledgerCall'.rows) :
                    ledgerCall'.rows[n] = history[Len(history) + 1 - n] ]_vars

\* fetch_history(1) has returned the later of two events, on a connection that has
\* an upserted row
C25_Witness ==
    /\ ledgerCall.op = "fetch_history"
    /\ ledgerCall.limit = 1
    /\ Len(history) = 2
    /\ ledgerCall.rows = <<history[2]>>
    /\ Len(tbl) >= 1

\* C26: in dry-run mode no DBAdapter is created, the ledger and the tables stay
\* untouched, due_jobs is never called - no job is claimed, no next_run moves from
\* the value it was loaded with - and no callable is invoked; when run_from_cli has
\* returned, the schedule is loaded and its enabled jobs have been printed in order.
C26_DryRun ==
    cli.dry_run =>
      /\ ~cli.connected
      /\ history = <<>> /\ tbl = <<>> /\ committed = <<>> /\ ~txnFailed
      /\ pollNow = LoadTime /\ ready = <<>> /\ ~dueRaised
      /\ cyclePc = "idle" /\ cycle = 0
      /\ \A i \in 1..Len(jobs) :
            /\ jobs[i].next_run = LoadTime
            /\ claimedAt[i] = -1
            /\ task[i] = "none"
            /\ invoked[i] = 0
      /\ cli.pc = "exited" =>
            /\ jobs = from_file(source)
            /\ cli.printed = [i \in 1..Len(jobs) |-> jobs[i].name]

\* a dry run of a schedule with two enabled jobs has printed them and returned
C26_Witness ==
    /\ cli.dry_run
    /\ cli.pc = "exited"
    /\ Len(cli.printed) >= 2

\* the run of job i in the current cycle has failed
Failed(i) ==
    local[i].error # ""

\* C27: the steps of running the jobs leave the schedule alone - next_run is what the
\* claiming poll computed, compute_next_run(pollNow), whether the run succeeds or
\* fails; a job whose run has failed is not invoked again in the cycle; a callable is
\* invoked only for a job of the due list not invoked before in the cycle; and a poll
\* returns a job only when it has reached the job's next_run.
C27_NoRetry ==
    [][ /\ cyclePc # "idle" => (jobs' = jobs /\ ready' = ready /\ pollNow' = pollNow)
        /\ \A i \in 1..Len(jobs) :
              /\ Failed(i) => invoked'[i] <= invoked[i]
              /\ invoked'[i] > invoked[i] =>
                    /\ invoked[i] = 0
                    /\ \E n \in 1..Len(ready) : ready[n] = i
              /\ (\E n \in 1..Len(ready') : ready'[n] = i) =>
                    /\ jobs'[i].next_run = compute_next_run(jobs[i].schedule, pollNow')
                    /\ cyclePc = "idle" => pollNow' >= jobs[i].next_run ]_vars

\* a job whose run failed in an earlier cycle has been invoked again in the cycle of a
\* later poll, five minutes after the load or later
C27_Witness ==
    /\ cycle >= 2
    /\ pollNow >= DefaultSeconds
    /\ \E i \in 1..Len(jobs) :
          /\ invoked[i] = 1
          /\ \E e \in EventsOf(jobs[i].name, {"job_error"}) : history[e].cycle < cycle

\* the recurrence descriptor names no known type, or is a daily or weekly one that
\* lacks a field it needs
Malformed(schedule) ==
    LET type == Get(schedule, "type", "interval")
    IN  \/ type \notin {"interval", "daily", "weekly", "cron"}
        \/ type = "daily" /\ "time" \notin DOMAIN schedule
        \/ type = "weekly" /\ ({"time", "weekday"} \ DOMAIN schedule) # {}

\* C28: while the schedule holds an enabled entry with a malformed recurrence
\* descriptor, every poll ends with an error for the caller and returns no job; so
\* such an entry is never dispatched.
C28_MalformedFatal ==
    [][ (\E i \in 1..Len(jobs) : Malformed(jobs[i].schedule)) =>
          /\ dueRaised'
          /\ ready' = <<>>
          /\ \A i \in 1..Len(jobs) : Malformed(jobs[i].schedule) => claimedAt'[i] = -1 ]_vars

\* job i has a cron schedule
IsCron(i) ==
    Get(jobs[i].schedule, "type", "interval") = "cron"

\* C29: without croniter, a poll of a schedule that holds a cron job makes run_once
\* end with the error compute_next_run raised; the cron job keeps the next_run it was
\* loaded with, is not in the due list, gets no task and its callable is not invoked.
C29_CronWithoutEvaluator ==
    [][ (~hasCroniter /\ \E i \in 1..Len(jobs) : IsCron(i)) =>
          /\ cyclePc = "idle" => (dueRaised' /\ cyclePc' = "raised: schedule")
          /\ \A i \in 1..Len(jobs) :
                IsCron(i) =>
                  /\ jobs'[i].next_run = LoadTime
                  /\ \A n \in 1..Len(ready') : ready'[n] # i
                  /\ task'[i] = "none"
                  /\ invoked'[i] = 0 ]_vars

\* without croniter, run_once has ended with the error of the poll; the cron job is
\* where it was loaded
C29_Witness ==
    /\ ~hasCroniter
    /\ cyclePc = "raised: schedule"
    /\ dueRaised
    /\ \E i \in 1..Len(jobs) : IsCron(i) /\ jobs[i].next_run = LoadTime

\* the durable current rows of a key
DurableCurrent(key) ==
    { i \in CurrentIds(tbl, key) : tbl[i].durable }

\* process p has inserted a row for the key after a SELECT that found no current row
ObservedNone(p, key) ==
    \E e \in 1..Len(tbl) : tbl[e].k = key /\ tbl[e].xmin = p /\ tbl[e].seen = 0

\* C30: with one adapter per process, a key can end up with two durable current
\* rows, and only in this way: the calls of the two processes overlapped, and each
\* process inserted a row for the key after observing no current row for it.
C30_TwoProcessRace ==
    \A key \in Keys :
        Cardinality(DurableCurrent(key)) >= 2 =>
          /\ overlapped
          /\ \A p \in Threads : ObservedNone(p, key)

\* both processes have returned from their upsert of one record of the same,
\* previously unseen key, and the key has two durable current rows
C30_Witness ==
    /\ \A p \in Threads : pc[p] = "done" /\ inserted[p] = 1
    /\ Len(tbl) = 2
    /\ tbl[1].seen = 0 /\ tbl[2].seen = 0
    /\ \E key \in Keys : Cardinality(DurableCurrent(key)) = 2

\* ======================================================================
\* Further properties of the temporal upsert engine
\* ======================================================================
\* in `new` row i has been closed, and a later row of the same key, valid from the
\* instant row i was closed at, has come with it
ClosedWithSuccessor(old, new) ==
    \A i \in 1..Len(old) :
        (old[i].is_current = 1 /\ new[i].is_current = 0) =>
          \E j \in (Len(old) + 1)..Len(new) :
              /\ new[j].k = new[i].k
              /\ new[j].valid_from = new[i].valid_to

\* C31: in the durable table a key that has a row has exactly one current row, and
\* a row becomes closed there only in a step that also makes a successor for its
\* key durable.
C31_ExactlyOneCurrent ==
    [][ /\ \A key \in Keys :
              KeyIds(committed', key) # {} => Cardinality(CurrentOf(committed', key)) = 1
        /\ ClosedWithSuccessor(committed, committed') ]_vars

\* the key's current row before the step is row i, written earlier in thread t's batch
EarlierInBatch(t, key, i) ==
    /\ Applied(t)
    /\ row'[t].k = key
    /\ i > base[t]
    /\ i = SelectCurrent(tbl, key)

\* C32: when the loop has dealt with a record whose key has a current row written
\* earlier in the same batch, the key's current row holds the record's attribute
\* values; and if these differ from the earlier row's, the earlier row is kept,
\* closed, with its own values, and the record has become a new row.
C32_BatchOrder ==
    [][ \A t \in Threads, key \in Keys, i \in 1..Len(tbl) :
          EarlierInBatch(t, key, i) =>
            LET c == SelectCurrent(tbl', key)
            IN  /\ c # 0
                /\ Attrs(tbl'[c]) = Attrs(row'[t])
                /\ Attrs(tbl[i]) # Attrs(row'[t]) =>
                      /\ c = Len(tbl')
                      /\ c > Len(tbl)
                      /\ tbl'[i].is_current = 0
                      /\ Attrs(tbl'[i]) = Attrs(tbl[i]) ]_vars

\* C33: also when calls overlap, no row ends before it begins, and of two rows of a
\* key the one inserted later does not begin earlier.
C33_TimestampsUnderConcurrency ==
    \A i, j \in 1..Len(tbl) :
        /\ tbl[i].valid_from <= tbl[i].valid_to
        /\ (i < j /\ tbl[i].k = tbl[j].k) => tbl[i].valid_from <= tbl[j].valid_from

\* C34: when the loop has dealt with a record whose key has a current row, it has
\* written nothing if and only if the record's attribute values, field by field,
\* are those of the current row; otherwise the record has become a new row.
C34_ExactChangeDetection ==
    [][ \A t \in Threads, key \in Keys, i \in 1..Len(tbl) :
          ( /\ Applied(t)
            /\ row'[t].k = key
            /\ i = SelectCurrent(tbl, key) )
          => /\ tbl' = tbl <=> Attrs(tbl[i]) = Attrs(row'[t])
             /\ Attrs(tbl[i]) # Attrs(row'[t]) =>
                   /\ Len(tbl') = Len(tbl) + 1
                   /\ Attrs(tbl'[Len(tbl')]) = Attrs(row'[t]) ]_vars

\* C35: a dispatch of the current cycle has an error event in the ledger only if
\* its callable raised; a dispatch whose callable returned normally has no event
\* of type job_error or of status failed.
C35_FailedMeansRaised ==
    \A i \in 1..Len(jobs) :
        task[i] # "none" =>
          /\ CycleEvents(i, {"job_error"}) # {} => CallableRaised(i)
          /\ CallableReturned(i) =>
                \A e \in CycleEvents(i, {"job_start", "job_end", "job_error"}) :
                    history[e].status # "failed" /\ history[e].event_type # "job_error"

\* C36: in async mode, once a poll has returned a job whose name is unresolved,
\* the cycle never gets to gather: it is about to raise or has raised the
\* unknown-job error, no job the poll returned has a task, an invocation or a
\* ledger event of this cycle, and each of them has had its next_run set from the
\* poll's instant.
C36_ResolutionPrecedesStart ==
    (asyncMode /\ \E i \in 1..Len(jobs) : Returned(i) /\ Unresolved(i)) =>
      /\ cyclePc \in {"launch", "raised: unknown job"}
      /\ \A j \in 1..Len(jobs) :
            Returned(j) =>
              /\ task[j] = "none"
              /\ invoked[j] = 0
              /\ CycleEvents(j, {"job_start", "job_end", "job_error"}) = {}
              /\ claimedAt[j] = pollNow
              /\ jobs[j].next_run = compute_next_run(jobs[j].schedule, pollNow)
              /\ jobs[j].next_run > pollNow

\* run_once has raised at the unresolved name; the poll had returned it together
\* with two jobs whose names resolve
C36_Witness ==
    /\ asyncMode
    /\ cyclePc = "raised: unknown job"
    /\ Len(ready) = 3
    /\ Unresolved(ready[2])
    /\ ~Unresolved(ready[1]) /\ ~Unresolved(ready[3])
    /\ history = <<>>

\* ======================================================================
\* Progress of the run_forever loop
\* ======================================================================
\* jobs a schedule document of the model can hold
JobSlots ==
    1..3

\* slot i holds no job with an Interval policy of at least one second
NotIntervalJob(i) ==
    \/ i > Len(jobs)
    \/ Get(jobs[i].schedule, "type", "interval") # "interval"
    \/ Get(jobs[i].schedule, "seconds", DefaultSeconds) < 1

\* a premise of the claim has failed: a job name does not resolve, or a storage
\* statement has failed on the connection
PremiseFailed ==
    \/ \E j \in 1..Len(jobs) : Unresolved(j)
    \/ txnFailed

\* the callable of job i is being invoked
Invoking(i) ==
    task[i] = "call"

\* C37 as stated: if all names resolve and no ledger write fails, every Interval
\* job is invoked again and again.
C37_NoStarvationAsStated ==
    \A i \in JobSlots : []<>(NotIntervalJob(i) \/ PremiseFailed \/ Invoking(i))

\* C37: if all names resolve, no ledger write fails and no poll raises while
\* computing a next run, every Interval job is invoked again and again.
C37_NoStarvation ==
    \A i \in JobSlots : []<>(NotIntervalJob(i) \/ PremiseFailed \/ dueRaised \/ Invoking(i))

\* an Interval job is invoked in a cycle after its first one, with every premise
\* in force and another job in the schedule
C37_Witness ==
    /\ cycle = MaxCycle
    /\ ~PremiseFailed /\ ~dueRaised
    /\ Len(jobs) = 2
    /\ \E i \in JobSlots : ~NotIntervalJob(i) /\ Invoking(i) /\ claimedAt[i] = pollNow

====
